---- MODULE Spec2Model ----
(***************************************************************************)
(* RoadShow: the concurrent ingestion pipeline of the Craigslist antique   *)
(* scraper (src/scraper/craigslistScraper.ts, src/ai/openaiService.ts,     *)
(* src/index.ts, src/database/operations.ts).                              *)
(*                                                                         *)
(* The module holds one specification per component:                       *)
(*   SpecQ / SpecQFair  a rate-limited queue instance under the policy of  *)
(*                      one of the three constructors                      *)
(*   SpecCollect        CraigslistScraper.collectListings                  *)
(*   SpecDownload       CraigslistScraper.downloadImages / downloadImage   *)
(*   SpecAnalyze        OpenAIService.analyzeAntique / performAnalysis     *)
(*   SpecRetry          the same, under fairness                           *)
(*   SpecValidate       the validators of OpenAIService, input by input    *)
(*   SpecRun            AntiqueAnalyzer.run over collect and download      *)
(*   SpecStore          DatabaseService.saveListing / saveAnalysis         *)
(*   SpecMain           main(): initialize, run, catch and finally         *)
(* All of them share the queue engine below.  The engine is the p-queue    *)
(* dependency (package.json pins ^6.6.2); its code is not part of the      *)
(* repository's sources, so it is modelled as section 4.1 of the design    *)
(* describes it: a FIFO of waiting tasks, a count of in-flight tasks and   *)
(* a per-window count of starts, both gates required for a start.          *)
(***************************************************************************)
EXTENDS Integers, Sequences, FiniteSets, TLC

VARIABLES
    cfg,        \* the configuration values handed to the constructors
    queue,      \* the queue instance: policy, waiting list, counters, running set
    jobs,       \* jobs[t]: the job the closure submitted for t runs (0 before)
    submitLog,  \* the submitters in the order add() was called
    settled,    \* settled[t]: how the promise add() returned to t settled
    col,        \* collectListings: its locals and position
    dl,         \* downloadImages: its locals, the downloads and the image directory
    ai,         \* analyzeAntique / performAnalysis: its locals and position
    run         \* AntiqueAnalyzer.run: its locals and position, the database,
                \* and the calls it has made

vars == <<cfg, queue, jobs, submitLog, settled, col, dl, ai, run>>

-----------------------------------------------------------------------------
(* Bounds of the model *)

\* submitters (tasks, detail URLs, image slots) per queue instance
MaxTasks == 3
\* largest configured concurrency (scraping.concurrency, concurrentRequests)
MaxConc == 2
\* largest configured requestsPerMinute
MaxCap == 2

\* distinct detail URLs a search can list
MaxUrls == 2
\* largest configured resultsPerPage
MaxPerPage == 2
\* largest configured maxPages
MaxPageCount == 2

\* image URLs of one listing
MaxImages == 3

\* analyzeAntique calls of one run
MaxCalls == 2

\* validation inputs: numbers from -MaxTenths to MaxTenths tenths, strings of
\* up to MaxStrLen characters
MaxTenths == 15
MaxStrLen == 3

Tasks == 1..MaxTasks
Urls == 1..MaxUrls

\* stands for "no cap" (p-queue's default Infinity) within the bounds
Unlimited == MaxTasks + 1

-----------------------------------------------------------------------------
(* Queue policies: the three constructors *)

\* this.queue of CraigslistScraper
PagePolicy(c) ==
    [kind |-> "page", concurrency |-> c.concurrency, intervalCap |-> 1,
     carryover |-> TRUE]

ImageConcurrency == 10
ImageIntervalCap == 20

\* this.imageQueue of CraigslistScraper
ImagePolicy ==
    [kind |-> "image", concurrency |-> ImageConcurrency,
     intervalCap |-> ImageIntervalCap, carryover |-> FALSE]

\* the inference queue with intervalCap left at its default
InferencePolicyNoRate(c) ==
    [kind |-> "inference", concurrency |-> c.concurrentRequests,
     intervalCap |-> Unlimited, carryover |-> TRUE]

\* this.queue of OpenAIService
InferencePolicy(c) ==
    [kind |-> "inference", concurrency |-> c.concurrentRequests,
     intervalCap |-> c.requestsPerMinute, carryover |-> TRUE]

\* the configuration values the constructors read
Configs ==
    [concurrency : 1..MaxConc, concurrentRequests : 1..MaxConc,
     requestsPerMinute : 1..MaxCap, resultsPerPage : 1..MaxPerPage,
     maxPages : 1..MaxPageCount]

\* a configuration in which only the fields kind reads vary
ConfigsOf(kind) ==
    {c \in Configs :
        /\ (kind \notin {"page", "collect"} => c.concurrency = 1)
        /\ (kind \notin {"inference", "analyze"} =>
               c.concurrentRequests = 1 /\ c.requestsPerMinute = 1)
        /\ (kind # "collect" => c.resultsPerPage = 1 /\ c.maxPages = 1)}

PolicyOf(kind, c) ==
    CASE kind \in {"page", "collect"} -> PagePolicy(c)
      [] kind = "image" -> ImagePolicy
      [] kind \in {"inference", "analyze"} -> InferencePolicy(c)

-----------------------------------------------------------------------------
(* The queue engine *)

NewQueue(policy) ==
    [policy |-> policy, waiting |-> <<>>, pending |-> 0, intervalCount |-> 0,
     running |-> {}, startLog |-> <<>>, windowStarts |-> 0, held |-> {}]

QDoesIntervalAllowAnother(q) == q.intervalCount < q.policy.intervalCap

QDoesConcurrentAllowAnother(q) == q.pending < q.policy.concurrency

\* the waiting list keeps higher priorities first and, within one priority,
\* the order of arrival
RECURSIVE QEnqueue(_, _)
QEnqueue(w, e) ==
    IF w = <<>> THEN <<e>>
    ELSE IF Head(w).priority < e.priority THEN <<e>> \o w
    ELSE <<Head(w)>> \o QEnqueue(Tail(w), e)

\* run(): the head of the waiting list starts; startLog notes what the two
\* counters were at that moment
QStartOne(q) ==
    LET e == Head(q.waiting) IN
    [q EXCEPT !.waiting = Tail(@),
              !.pending = @ + 1,
              !.intervalCount = @ + 1,
              !.running = @ \cup {e.task},
              !.windowStarts = @ + 1,
              !.startLog = Append(@, [task |-> e.task,
                                      intervalCount |-> q.intervalCount,
                                      pending |-> q.pending])]

QTryToStartAnother(q) ==
    IF /\ q.waiting # <<>>
       /\ QDoesIntervalAllowAnother(q)
       /\ QDoesConcurrentAllowAnother(q)
    THEN QStartOne(q)
    ELSE q

RECURSIVE QProcessQueue(_)
QProcessQueue(q) ==
    LET n == QTryToStartAnother(q) IN
    IF n = q THEN q ELSE QProcessQueue(n)

\* a window boundary: the count of starts restarts (from the number of tasks
\* still in flight when carryoverConcurrencyCount is set)
QOnInterval(q) ==
    QProcessQueue([q EXCEPT !.intervalCount =
                                IF q.policy.carryover THEN q.pending ELSE 0,
                            !.windowStarts = 0])

\* a task of the queue has finished
QTaskDone(q, t) ==
    QTryToStartAnother([q EXCEPT !.pending = @ - 1, !.running = @ \ {t}])

QWaitingTasks(q) == {q.waiting[i].task : i \in 1..Len(q.waiting)}

\* add(fn, options); held notes the tasks that did not start within add()
QAddTask(q, t, prio) ==
    LET n == QTryToStartAnother(
                 [q EXCEPT !.waiting = QEnqueue(@, [task |-> t, priority |-> prio])])
    IN  [n EXCEPT !.held = IF t \in QWaitingTasks(n) THEN @ \cup {t} ELSE @]

-----------------------------------------------------------------------------
(* JavaScript values, as far as the validation of a response reads them.     *)
(* A number is held in tenths (One stands for 1.0); a string is a sequence   *)
(* of characters.  The fixed texts of the program are written word by word.  *)

One == 10

JUndefined == [t |-> "undefined", n |-> 0, s |-> <<>>]
JNull == [t |-> "null", n |-> 0, s |-> <<>>]
JBool(b) == [t |-> "boolean", n |-> IF b THEN 1 ELSE 0, s |-> <<>>]
JNum(n) == [t |-> "number", n |-> n, s |-> <<>>]
JNaN == [t |-> "nan", n |-> 0, s |-> <<>>]
JInf(sign) == [t |-> "infinity", n |-> sign, s |-> <<>>]
JStr(s) == [t |-> "string", n |-> 0, s |-> s]
JObject == [t |-> "object", n |-> 0, s |-> <<>>]

Digits == <<"0", "1", "2", "3", "4", "5", "6", "7", "8", "9">>
UpperCase ==
    <<"A", "B", "C", "D", "E", "F", "G", "H", "I", "J", "K", "L", "M",
      "N", "O", "P", "Q", "R", "S", "T", "U", "V", "W", "X", "Y", "Z">>
LowerCase ==
    <<"a", "b", "c", "d", "e", "f", "g", "h", "i", "j", "k", "l", "m",
      "n", "o", "p", "q", "r", "s", "t", "u", "v", "w", "x", "y", "z">>

IsDigit(c) == \E i \in DOMAIN Digits : Digits[i] = c
DigitVal(c) == (CHOOSE i \in DOMAIN Digits : Digits[i] = c) - 1
AllDigits(s) == \A i \in DOMAIN s : IsDigit(s[i])

RECURSIVE IntVal(_)
IntVal(s) ==
    IF s = <<>> THEN 0
    ELSE IntVal(SubSeq(s, 1, Len(s) - 1)) * 10 + DigitVal(s[Len(s)])

RECURSIVE DigitsOf(_)
DigitsOf(k) ==
    IF k < 10 THEN <<Digits[k + 1]>>
    ELSE DigitsOf(k \div 10) \o <<Digits[(k % 10) + 1]>>

IsSpace(c) == c = " "

\* String.prototype.trim
RECURSIVE TrimLeft(_)
TrimLeft(s) ==
    IF s # <<>> /\ IsSpace(Head(s)) THEN TrimLeft(Tail(s)) ELSE s

RECURSIVE TrimRight(_)
TrimRight(s) ==
    IF s # <<>> /\ IsSpace(s[Len(s)]) THEN TrimRight(SubSeq(s, 1, Len(s) - 1))
    ELSE s

Trim(s) == TrimRight(TrimLeft(s))

\* a conversion that leaves the case as it is
SameCase(s) == s

\* String.prototype.toLowerCase
LowerChar(c) ==
    IF \E i \in DOMAIN UpperCase : UpperCase[i] = c
    THEN LowerCase[CHOOSE i \in DOMAIN UpperCase : UpperCase[i] = c]
    ELSE c

ToLowerCase(s) == [i \in DOMAIN s |-> LowerChar(s[i])]

\* an unsigned decimal literal: digits, with or without a fraction
UnsignedToNumber(s) ==
    LET dots == {i \in DOMAIN s : s[i] = "."} IN
    IF dots = {}
    THEN IF s # <<>> /\ AllDigits(s) THEN JNum(IntVal(s) * One) ELSE JNaN
    ELSE IF Cardinality(dots) > 1 THEN JNaN
    ELSE LET d == CHOOSE i \in dots : TRUE
             ip == SubSeq(s, 1, d - 1)
             fp == SubSeq(s, d + 1, Len(s))
         IN  IF AllDigits(ip) /\ AllDigits(fp) /\ (ip # <<>> \/ fp # <<>>)
             THEN JNum(IntVal(ip) * One
                       + (IF fp = <<>> THEN 0 ELSE (DigitVal(fp[1]) * One) \div 10))
             ELSE JNaN

Negated(v) ==
    IF v.t = "number" THEN JNum(0 - v.n)
    ELSE IF v.t = "infinity" THEN JInf(0 - v.n)
    ELSE v

InfinityText == <<"I", "n", "f", "i", "n", "i", "t", "y">>

SignlessToNumber(s) ==
    IF s = InfinityText THEN JInf(1) ELSE UnsignedToNumber(s)

\* the conversion of a string to a number: white space is trimmed, the empty
\* string is 0, a decimal literal is its value, anything else is NaN
\* (exponents and radix prefixes are left out: no input drawn has one)
StringToNumber(s) ==
    LET tr == Trim(s) IN
    IF tr = <<>> THEN JNum(0)
    ELSE IF Head(tr) = "-" THEN Negated(SignlessToNumber(Tail(tr)))
    ELSE IF Head(tr) = "+" THEN SignlessToNumber(Tail(tr))
    ELSE SignlessToNumber(tr)

\* Number(value)
ToNumber(v) ==
    CASE v.t = "undefined" -> JNaN
      [] v.t = "null" -> JNum(0)
      [] v.t = "boolean" -> JNum(v.n * One)
      [] v.t \in {"number", "nan", "infinity"} -> v
      [] v.t = "string" -> StringToNumber(v.s)
      [] v.t = "object" -> JNaN

NumberToString(n) ==
    LET a == IF n < 0 THEN 0 - n ELSE n
        body == IF a % One = 0 THEN DigitsOf(a \div One)
                ELSE DigitsOf(a \div One) \o <<".">>
                     \o DigitsOf(((a % One) * 10) \div One)
    IN  IF n < 0 THEN <<"-">> \o body ELSE body

\* String(value)
StringOf(v) ==
    CASE v.t = "undefined" -> <<"u", "n", "d", "e", "f", "i", "n", "e", "d">>
      [] v.t = "null" -> <<"n", "u", "l", "l">>
      [] v.t = "boolean" -> IF v.n = 1 THEN <<"t", "r", "u", "e">>
                            ELSE <<"f", "a", "l", "s", "e">>
      [] v.t = "number" -> NumberToString(v.n)
      [] v.t = "nan" -> <<"N", "a", "N">>
      [] v.t = "infinity" -> IF v.n < 0 THEN <<"-">> \o InfinityText ELSE InfinityText
      [] v.t = "string" -> v.s
      [] v.t = "object" -> <<"[object Object]">>

-----------------------------------------------------------------------------
(* OpenAIService: the validation and repair of a response *)

Underpriced == <<"u", "n", "d", "e", "r", "p", "r", "i", "c", "e", "d">>
Overpriced == <<"o", "v", "e", "r", "p", "r", "i", "c", "e", "d">>
Fair == <<"f", "a", "i", "r">>

\* a validation that lets NaN through
ValidateNumberUnchecked(value, defaultValue) == ToNumber(value)

\* validateNumber
ValidateNumber(value, defaultValue) ==
    LET num == ToNumber(value) IN
    IF num.t = "nan" THEN JNum(defaultValue) ELSE num

\* no upper limit
MathMin1None(num) == num

\* Math.min(1, num) and Math.max(0, num)
MathMin1(num) ==
    IF num.t = "infinity" THEN (IF num.n > 0 THEN JNum(One) ELSE num)
    ELSE IF num.n > One THEN JNum(One) ELSE num

MathMax0(num) ==
    IF num.t = "infinity" THEN (IF num.n > 0 THEN num ELSE JNum(0))
    ELSE IF num.n < 0 THEN JNum(0) ELSE num

\* a validation of the score that only replaces NaN
ValidateConfidenceUnclamped(value) ==
    LET num == ToNumber(value) IN
    IF num.t = "nan" THEN JNum(0) ELSE num

\* validateConfidence
ValidateConfidence(value) ==
    LET num == ToNumber(value) IN
    IF num.t = "nan" THEN JNum(0) ELSE MathMax0(MathMin1(num))

\* validatePricingAssessment
ValidatePricingAssessment(value) ==
    LET stringValue == ToLowerCase(StringOf(value)) IN
    IF stringValue \in {Underpriced, Overpriced, Fair} THEN stringValue ELSE Fair

\* validateString
ValidateString(value, defaultValue) ==
    IF value.t = "string" /\ Trim(value.s) # <<>> THEN Trim(value.s)
    ELSE defaultValue

\* getDefaultAnalysis
GetDefaultAnalysis ==
    [marketValue |-> JNum(0),
     pricingAssessment |-> Fair,
     pricingConfidence |-> JNum(0),
     authenticityScore |-> JNum(0),
     authenticityTips |->
         <<"Analysis", " ", "unavailable", " ", "due", " ", "to", " ", "API", " ", "error">>,
     historicalContext |->
         <<"Analysis", " ", "unavailable", " ", "due", " ", "to", " ", "API", " ", "error">>,
     additionalNotes |->
         <<"Please", " ", "try", " ", "analyzing", " ", "this", " ", "item", " ",
           "again", " ", "later">>]

\* the content of a response: null, the empty string, a text JSON.parse
\* rejects, or a text it parses to `value`
NullContent == [kind |-> "null", value |-> JNull]
EmptyContent == [kind |-> "empty", value |-> JNull]
GarbageContent == [kind |-> "garbage", value |-> JNull]
JsonContent(v) == [kind |-> "json", value |-> v]

\* a parsed JSON object with the seven fields (undefined: the field is missing)
JPayload(f) == [t |-> "object", n |-> 0, s |-> <<>>, fields |-> f]

\* parsed.<name>; reading a property of null throws
Field(parsed, name) ==
    IF "fields" \in DOMAIN parsed THEN parsed.fields[name] ELSE JUndefined

\* parseResponse
ParseResponse(content) ==
    IF content.kind \in {"null", "empty"} THEN GetDefaultAnalysis
    ELSE IF content.kind = "garbage" THEN GetDefaultAnalysis
    ELSE IF content.value.t \in {"null", "undefined"} THEN GetDefaultAnalysis
    ELSE LET parsed == content.value IN
         [marketValue |-> ValidateNumber(Field(parsed, "marketValue"), 0),
          pricingAssessment |->
              ValidatePricingAssessment(Field(parsed, "pricingAssessment")),
          pricingConfidence |->
              ValidateConfidence(Field(parsed, "pricingConfidence")),
          authenticityScore |->
              ValidateConfidence(Field(parsed, "authenticityScore")),
          authenticityTips |->
              ValidateString(Field(parsed, "authenticityTips"),
                             <<"No", " ", "specific", " ", "tips", " ", "provided">>),
          historicalContext |->
              ValidateString(Field(parsed, "historicalContext"),
                             <<"No", " ", "historical", " ", "context", " ", "available">>),
          additionalNotes |->
              ValidateString(Field(parsed, "additionalNotes"),
                             <<"No", " ", "additional", " ", "notes">>)]

-----------------------------------------------------------------------------
(* How the callers submit: queue.add(() => this.scrapeListingPage(url)),     *)
(* imageQueue.add(() => this.downloadImage(url, listingId)),               *)
(* queue.add(async () => this.performAnalysis(listing))                    *)

\* add(fn, {priority: i}): the position handed on as a priority
SubmitPriorityByIndex(t) == t

\* add(fn): no options, so every task has the default priority
SubmitPriority(t) == 0

\* a closure over a variable shared by all submissions
SubmittedJobShared(t) == MaxTasks

\* the closure submitted for t runs t's own job
SubmittedJob(t) == t

\* a submission that calls its function at once instead of handing it to the queue
SubmitDirect(q, t) ==
    [q EXCEPT !.pending = @ + 1,
              !.running = @ \cup {t},
              !.windowStarts = @ + 1,
              !.startLog = Append(@, [task |-> t,
                                      intervalCount |-> q.intervalCount,
                                      pending |-> q.pending])]

Submit(q, t) == QAddTask(q, t, SubmitPriority(t))

NoJobs == [t \in Tasks |-> 0]
NoneSettled == [t \in Tasks |-> [status |-> "none", job |-> 0]]

-----------------------------------------------------------------------------
(* Idle values of the components a specification does not run *)

\* lost: a browser.newPage() call has failed; open: the page handles opened
\* and not closed; marker: the result page that showed the no-results marker
\* (page 0: none) and the URLs gathered before it; removed: the detail
\* fetches whose page carried the removed or expired marker; failed: the
\* result pages whose navigation or reading failed
ColIdle ==
    [phase |-> "idle", pageNum |-> 0, listingUrls |-> <<>>, listed |-> {},
     repeatedAcross |-> FALSE, navigated |-> 0, linkCounts |-> <<>>,
     allListings |-> <<>>, lost |-> FALSE, open |-> 0,
     marker |-> [page |-> 0, before |-> <<>>], removed |-> {}, failed |-> 0]
DlIdle ==
    [phase |-> "idle", urls |-> <<>>, listingId |-> 1, task |-> <<>>,
     files |-> {}, nextId |-> 1, images |-> <<>>]
NoAnalysis == [none |-> TRUE]
\* got: the responses received by the call; last: how the request of the
\* current pass ended; thrown: the error performAnalysis ended with; sent: the
\* requests of the call; waited: its backoff waits; inWindow: the requests
\* sent since the last window boundary of the inference queue
AiIdle ==
    [phase |-> "idle", call |-> 0, attempt |-> 0, wait |-> 0, requests |-> 0,
     limited |-> 0, raw |-> NullContent, result |-> NoAnalysis, how |-> "none",
     saved |-> NoAnalysis, got |-> 0, last |-> "none", thrown |-> "none",
     sent |-> <<>>, waited |-> 0, inWindow |-> 0]

\* the three tables: the keys of the listing rows, the image rows, and the
\* analysis rows
EmptyDb == [listings |-> {}, images |-> {}, analyses |-> {}]

\* main(): its position, the browser of the scraper and the connection of
\* the database ("none" before they are created, then "open", then "closed"),
\* the close calls cleanup() has made, and how the process ended
MainIdle ==
    [pc |-> "none", browser |-> "none", db |-> "none", cleanup |-> <<>>,
     exit |-> "none"]

\* lastSaved: for each listing identifier, the analysis the last successful
\* saveAnalysis call for it was given; main: the entry point around run()
RunIdle ==
    [phase |-> "idle", fetches |-> 0, listings |-> <<>>, i |-> 0,
     listingId |-> 0, images |-> <<>>, j |-> 0, analysis |-> NoAnalysis,
     log |-> <<>>, db |-> EmptyDb, error |-> "none", lastSaved |-> <<>>,
     main |-> MainIdle]

-----------------------------------------------------------------------------
(* SpecQ: one queue instance, tasks submitted at any time, in any order *)

QueueKinds == {"page", "image", "inference"}

InitQ ==
    /\ \E kind \in QueueKinds :
         /\ cfg \in ConfigsOf(kind)
         /\ queue = NewQueue(PolicyOf(kind, cfg))
    /\ jobs = NoJobs
    /\ submitLog = <<>>
    /\ settled = NoneSettled
    /\ col = ColIdle
    /\ dl = DlIdle
    /\ ai = AiIdle
    /\ run = RunIdle

Submitted == {submitLog[i] : i \in 1..Len(submitLog)}

\* a caller submits a task
QAdd(t) ==
    /\ t \notin Submitted
    /\ submitLog' = Append(submitLog, t)
    /\ jobs' = [jobs EXCEPT ![t] = SubmittedJob(t)]
    /\ queue' = Submit(queue, t)
    /\ UNCHANGED <<cfg, settled, col, dl, ai, run>>

\* a running task ends, with its result or with its failure: the promise of
\* its submitter settles and the queue looks for the next task
QFinish(t, outcome) ==
    /\ t \in queue.running
    /\ settled' = [settled EXCEPT ![t] = [status |-> outcome, job |-> jobs[t]]]
    /\ queue' = QTaskDone(queue, t)
    /\ UNCHANGED <<cfg, jobs, submitLog, col, dl, ai, run>>

\* the interval timer fires
QTick ==
    /\ queue' = QOnInterval(queue)
    /\ UNCHANGED <<cfg, jobs, submitLog, settled, col, dl, ai, run>>

NextQ ==
    \/ \E t \in Tasks : QAdd(t)
    \/ \E t \in Tasks : \E o \in {"fulfilled", "rejected"} : QFinish(t, o)
    \/ QTick

SpecQ == InitQ /\ [][NextQ]_vars

\* every running task finishes and time advances
SpecQFair ==
    /\ InitQ
    /\ [][NextQ]_vars
    /\ WF_vars(QTick)
    /\ WF_vars(\E t \in Tasks : \E o \in {"fulfilled", "rejected"} : QFinish(t, o))

-----------------------------------------------------------------------------
(* SpecCollect: CraigslistScraper.collectListings and scrapeListingPage *)

SeqsUpTo(S, n) == UNION {[1..k -> S] : k \in 0..n}

Range(f) == {f[i] : i \in DOMAIN f}

\* what one result page can turn out to be
PageOutcomes ==
    {[kind |-> k, links |-> <<>>] :
        k \in {"newPageFail", "configureFail", "gotoFail", "extractFail"}}
    \cup {[kind |-> k, links |-> l] :
              k \in {"noResults", "links"}, l \in SeqsUpTo(Urls, cfg.resultsPerPage)}

\* an array in place of the Set: push without a look-up
ArrayPush(set, url) == Append(set, url)

\* Set.prototype.add: a value already in the Set is not added again, and the
\* Set keeps the order of insertion
SetAdd(set, url) == IF url \in Range(set) THEN set ELSE Append(set, url)

\* pageListingUrls.forEach(url => listingUrls.add(url))
RECURSIVE AddAll(_, _)
AddAll(set, links) ==
    IF links = <<>> THEN set ELSE AddAll(SetAdd(set, Head(links)), Tail(links))

InitCollect ==
    /\ cfg \in ConfigsOf("collect")
    /\ queue = NewQueue(PolicyOf("collect", cfg))
    /\ jobs = <<>>
    /\ submitLog = <<>>
    /\ settled = <<>>
    /\ col = [ColIdle EXCEPT !.phase = "paging"]
    /\ dl = DlIdle
    /\ ai = AiIdle
    /\ run = RunIdle

\* the phase after an iteration of the page loop that did not break
AfterPage(n) == IF n + 1 < cfg.maxPages THEN "paging" ELSE "collected"

\* a test that never finds a page short
ShortPageNever(links) == FALSE

\* pageListingUrls.length < this.craigslistConfig.resultsPerPage
ShortPage(links) == Len(links) < cfg.resultsPerPage

\* an inner catch that rethrows
OnPageErrorRethrows(c) == [c EXCEPT !.phase = "thrown"]

\* the inner catch logs, closes the page, and the loop goes on with pageNum++
OnPageError(c) == [c EXCEPT !.pageNum = @ + 1, !.phase = AfterPage(c.pageNum)]

\* a loop that does not look for the marker
NoResultsUnchecked(o) == FALSE

\* document.querySelector('.alert-warning') !== null
NoResults(o) == o.kind = "noResults"

\* one iteration of the loop over the result pages; navigated counts the
\* result pages goto was called for, linkCounts holds the number of links of
\* each page that was read
ResultPage(o) ==
    /\ col.phase = "paging"
    /\ col.pageNum < cfg.maxPages
    /\ col' =
         IF o.kind = "newPageFail"
         THEN \* thrown outside the inner try: the outer catch rethrows
              [col EXCEPT !.phase = "thrown", !.lost = TRUE]
         ELSE IF o.kind = "configureFail"
         THEN \* the same, with the page left open
              [col EXCEPT !.phase = "thrown", !.open = @ + 1]
         ELSE IF o.kind \in {"gotoFail", "extractFail"}
         THEN OnPageError([col EXCEPT !.navigated = @ + 1, !.failed = @ + 1])
         ELSE LET c == [col EXCEPT
                           !.navigated = @ + 1,
                           !.marker = IF o.kind = "noResults"
                                      THEN [page |-> col.navigated + 1,
                                            before |-> col.listingUrls]
                                      ELSE @]
              IN  IF NoResults(o)
                  THEN \* the page is closed and the loop is left
                       [c EXCEPT !.phase = "collected"]
                  ELSE [c EXCEPT
                          !.listingUrls = AddAll(@, o.links),
                          !.listed = @ \cup Range(o.links),
                          !.repeatedAcross = @ \/ Range(o.links) \cap col.listed # {},
                          !.linkCounts = Append(@, [page |-> col.navigated + 1,
                                                    n |-> Len(o.links)]),
                          !.pageNum = IF ShortPage(o.links) THEN @ ELSE @ + 1,
                          !.phase = IF ShortPage(o.links)
                                    THEN "collected" ELSE AfterPage(col.pageNum)]
    /\ UNCHANGED <<cfg, queue, jobs, submitLog, settled, dl, ai, run>>

\* null, where a record is expected
NullRecord == [null |-> TRUE, id |-> 0, url |-> 0, postedDate |-> "none"]

RECURSIVE SubmitFrom(_, _, _)
SubmitFrom(q, k, n) == IF k > n THEN q ELSE SubmitFrom(Submit(q, k), k + 1, n)

\* Array.from(listingUrls).map(url => this.queue.add(...)): one task per
\* element, task k for the k-th URL
SubmitListings ==
    /\ col.phase = "collected"
    /\ LET n == Len(col.listingUrls) IN
         /\ jobs' = [k \in 1..n |-> col.listingUrls[SubmittedJob(k)]]
         /\ submitLog' = [k \in 1..n |-> k]
         /\ settled' = [k \in 1..n |-> [status |-> "none", value |-> NullRecord,
                                        cause |-> "none"]]
         /\ queue' = SubmitFrom(queue, 1, n)
    /\ col' = [col EXCEPT !.phase = "detail"]
    /\ UNCHANGED <<cfg, dl, ai, run>>

\* how a detail fetch can go; "ok", "okNoDate" and "okBadDate" are pages that
\* load and are read, with a posting date, with none, and with one that
\* Date cannot parse
DetailOutcomes ==
    {"newPageFail", "configureFail", "gotoFail", "deleted", "extractFail", "ok",
     "okNoDate", "okBadDate"}

\* getText('.date.timeago') on such a page
DateText(o) ==
    CASE o = "ok" -> "2024-05-01T10:00:00Z"
      [] o \in {"okNoDate", "deleted"} -> ""
      [] o = "okBadDate" -> "3 days ago"

\* new Date(text): the date, or an Invalid Date
NewDate(text) ==
    IF text = "2024-05-01T10:00:00Z" THEN "2024-05-01T10:00:00.000Z" ELSE "Invalid Date"

\* dateText ? new Date(dateText) : new Date()
PostedDate(dateText) == IF dateText # "" THEN NewDate(dateText) ELSE "fetchTime"

\* Date.prototype.toISOString: a RangeError for an Invalid Date
ToISOStringThrows(date) == date = "Invalid Date"

\* a fetch that does not look for the markers
IsDeletedUnchecked(o) == FALSE

\* document.querySelector('.removed') !== null ||
\* document.querySelector('.expired') !== null
IsDeleted(o) == o = "deleted"

\* scrapeListingPage(url), as the promise of task t settles
ScrapeListingPage(t, url, o) ==
    IF o \in {"newPageFail", "configureFail"}
    THEN \* thrown before the try: the promise is rejected
         [status |-> "rejected", value |-> NullRecord, cause |-> o]
    ELSE IF o = "gotoFail"
    THEN \* caught: logged, page closed, null returned
         [status |-> "fulfilled", value |-> NullRecord, cause |-> o]
    ELSE IF IsDeleted(o)
    THEN \* logged, page closed, null returned
         [status |-> "fulfilled", value |-> NullRecord, cause |-> o]
    ELSE IF o = "extractFail"
    THEN \* caught as the failure of goto is
         [status |-> "fulfilled", value |-> NullRecord, cause |-> o]
    ELSE LET postedDate == PostedDate(DateText(o)) IN
         IF ToISOStringThrows(postedDate)
         THEN \* page.evaluate rejects: caught, page closed, null returned
              [status |-> "fulfilled", value |-> NullRecord, cause |-> o]
         ELSE \* the record, with a fresh identifier
              [status |-> "fulfilled",
               value |-> [null |-> FALSE, id |-> t, url |-> url,
                          postedDate |-> postedDate],
               cause |-> "ok"]

\* a detail fetch ends
DetailFinish(t, o) ==
    /\ col.phase = "detail"
    /\ t \in queue.running
    /\ settled' = [settled EXCEPT ![t] = ScrapeListingPage(t, jobs[t], o)]
    /\ queue' = QTaskDone(queue, t)
    /\ col' = [col EXCEPT !.lost = @ \/ o = "newPageFail",
                          !.open = IF o = "configureFail" THEN @ + 1 ELSE @,
                          !.removed = IF o = "deleted" THEN @ \cup {t} ELSE @]
    /\ UNCHANGED <<cfg, jobs, submitLog, dl, ai, run>>

\* the page queue's interval timer fires
DetailTick ==
    /\ col.phase = "detail"
    /\ queue.waiting # <<>>
    /\ queue' = QOnInterval(queue)
    /\ UNCHANGED <<cfg, jobs, submitLog, settled, col, dl, ai, run>>

\* the filter over the settled results with the test on the value left out
KeepFulfilled(r) == r.status = "fulfilled"

\* result.status === 'fulfilled' && result.value
KeepResult(r) == r.status = "fulfilled" /\ ~r.value.null

RECURSIVE Kept(_, _)
Kept(results, k) ==
    IF k > Len(results) THEN <<>>
    ELSE (IF KeepResult(results[k]) THEN <<results[k].value>> ELSE <<>>)
         \o Kept(results, k + 1)

\* Promise.all: rejects as soon as one promise is rejected
AwaitAll(results) ==
    IF \E t \in DOMAIN results : results[t].status = "rejected" THEN "thrown"
    ELSE IF \A t \in DOMAIN results : results[t].status # "none" THEN "settled"
    ELSE "pending"

\* Promise.allSettled: waits for every promise and never rejects
AwaitAllSettled(results) ==
    IF \A t \in DOMAIN results : results[t].status # "none" THEN "settled"
    ELSE "pending"

\* the await of the detail fetches ends; the successful records are returned
CollectReturn ==
    /\ col.phase = "detail"
    /\ AwaitAllSettled(settled) # "pending"
    /\ col' = IF AwaitAllSettled(settled) = "thrown"
              THEN [col EXCEPT !.phase = "thrown"]
              ELSE [col EXCEPT !.phase = "returned",
                               !.allListings = Kept(settled, 1)]
    /\ UNCHANGED <<cfg, queue, jobs, submitLog, settled, dl, ai, run>>

NextCollect ==
    \/ \E o \in PageOutcomes : ResultPage(o)
    \/ SubmitListings
    \/ \E t \in DOMAIN settled : \E o \in DetailOutcomes : DetailFinish(t, o)
    \/ DetailTick
    \/ CollectReturn

SpecCollect == InitCollect /\ [][NextCollect]_vars

-----------------------------------------------------------------------------
(* SpecDownload: CraigslistScraper.downloadImages and downloadImage *)

\* image URLs: one with an extension, one without (its last path segment starts
\* with a dot), and a string that is no URL
ImageUrls ==
    { [valid |-> TRUE, pathname |-> <<"/", "a", ".", "png">>],
      [valid |-> TRUE, pathname |-> <<"/", ".", "a">>],
      [valid |-> FALSE, pathname |-> <<>>] }

\* the part of a path after its last "/"
RECURSIVE BaseName(_)
BaseName(path) ==
    IF path = <<>> THEN <<>>
    ELSE IF \E i \in DOMAIN path : path[i] = "/" THEN BaseName(Tail(path))
    ELSE path

\* path.extname: from the last "." of the base name, unless that "." is its
\* first character or there is none
ExtName(path) ==
    LET base == BaseName(path)
        dots == {i \in DOMAIN base : base[i] = "."}
    IN  IF dots = {} THEN <<>>
        ELSE LET last == CHOOSE i \in dots : \A j \in dots : j <= i IN
             IF last = 1 THEN <<>> ELSE SubSeq(base, last, Len(base))

\* getFileExtension, for a URL that new URL() accepts
GetFileExtension(url) ==
    IF ExtName(url.pathname) = <<>> THEN <<".", "jpg">> ELSE ExtName(url.pathname)

\* `${listingId}_${imageId}${extension}`
FileName(listingId, imageId, extension) ==
    [listingId |-> listingId, imageId |-> imageId, extension |-> extension]

NoPath == FileName(0, 0, <<>>)

\* path.join(this.imageDir, filename)
LocalPath(filename) == [dir |-> "imageDir", filename |-> filename]

\* the response headers: none of the two, or both (the length whatever the
\* server says)
Responses ==
    { [contentType |-> "", hasLength |-> FALSE, contentLength |-> 0],
      [contentType |-> "image/png", hasLength |-> TRUE, contentLength |-> 3] }

NoResponse == [contentType |-> "", hasLength |-> FALSE, contentLength |-> 0]

\* the bytes a body can have
BodySizes == {0, 2}

\* response.headers['content-type'] || 'image/jpeg'
ContentTypeOf(r) == IF r.contentType = "" THEN "image/jpeg" ELSE r.contentType

\* parseInt(response.headers['content-length'] || '0', 10)
ContentLengthOf(r) == IF r.hasLength THEN r.contentLength ELSE 0

NullImage ==
    [null |-> TRUE, id |-> 0, listingId |-> 0, filename |-> NoPath,
     originalUrl |-> 0, localPath |-> LocalPath(NoPath), contentType |-> "",
     size |-> 0]

FileAt(files, path) == {f \in files : f.path = path}

\* a catch block that returns null without looking at the file
NoCleanup(files, path, unlinkOk) == files

\* the catch block of downloadImage: if (fs.existsSync(localPath)) unlink it; a
\* failing unlink is logged and the file stays
Cleanup(files, path, unlinkOk) ==
    IF FileAt(files, path) # {} /\ unlinkOk THEN files \ FileAt(files, path)
    ELSE files

\* an identifier taken from the listing instead of a fresh one
ImageIdOfListing(d) == d.listingId

\* uuidv4(): an identifier no earlier call has returned
Uuidv4(d) == d.nextId

\* downloadImage up to the request, run as the queue starts task t: a fresh
\* identifier, the extension, the file name; new URL(url) throws for a string
\* that is no URL, outside the try
DownloadImageBegin(d, t) ==
    LET url == d.urls[t]
        imageId == Uuidv4(d)
    IN  [d EXCEPT !.nextId = @ + 1,
                  !.task[t].imageId = imageId,
                  !.task[t].step = IF url.valid THEN "requesting" ELSE "badUrl",
                  !.task[t].filename =
                      IF url.valid
                      THEN FileName(d.listingId, imageId, GetFileExtension(url))
                      ELSE NoPath]

\* the tasks an operation of the queue has started, in the order of their start
StartedBy(q, q2) ==
    [i \in 1..(Len(q2.startLog) - Len(q.startLog)) |->
        q2.startLog[Len(q.startLog) + i].task]

RECURSIVE BeginAll(_, _)
BeginAll(d, ts) ==
    IF ts = <<>> THEN d ELSE BeginAll(DownloadImageBegin(d, Head(ts)), Tail(ts))

InitDownload ==
    /\ cfg \in ConfigsOf("image")
    /\ queue = NewQueue(PolicyOf("image", cfg))
    /\ jobs = <<>>
    /\ submitLog = <<>>
    /\ settled = <<>>
    /\ col = ColIdle
    /\ dl \in {[DlIdle EXCEPT !.urls = u] : u \in SeqsUpTo(ImageUrls, MaxImages)}
    /\ ai = AiIdle
    /\ run = RunIdle

\* downloadImages(imageUrls, listingId): one task per URL
DownloadImages ==
    /\ dl.phase = "idle"
    /\ LET n == Len(dl.urls) IN
         /\ jobs' = [k \in 1..n |-> k]
         /\ submitLog' = [k \in 1..n |-> k]
         /\ settled' = [k \in 1..n |->
                          [status |-> "none", value |-> NullImage, cause |-> "none",
                           unlinkFailed |-> FALSE]]
         /\ queue' = SubmitFrom(queue, 1, n)
         /\ dl' = BeginAll(
                     [dl EXCEPT !.phase = "downloading",
                                !.task = [k \in 1..n |->
                                            [step |-> "queued", imageId |-> 0,
                                             filename |-> NoPath,
                                             response |-> NoResponse]]],
                     StartedBy(queue, SubmitFrom(queue, 1, n)))
    /\ UNCHANGED <<cfg, col, ai, run>>

\* the promise of task t settles and the image queue looks for the next task;
\* d is the state downloadImage leaves
DlSettle(t, s, d) ==
    /\ settled' = [settled EXCEPT ![t] = s]
    /\ queue' = QTaskDone(queue, t)
    /\ dl' = BeginAll(d, StartedBy(queue, QTaskDone(queue, t)))

\* the rejection of a download whose URL is no URL reaches the queue
DlReject(t) ==
    /\ dl.phase = "downloading"
    /\ dl.task[t].step = "badUrl"
    /\ DlSettle(t, [status |-> "rejected", value |-> NullImage,
                    cause |-> "badUrl", unlinkFailed |-> FALSE],
                [dl EXCEPT !.task[t].step = "done"])
    /\ UNCHANGED <<cfg, jobs, submitLog, col, ai, run>>

\* the catch block: clean up, return null
DlFail(t, cause, unlinkOk) ==
    LET path == LocalPath(dl.task[t].filename)
        exists == FileAt(dl.files, path) # {}
    IN  DlSettle(t, [status |-> "fulfilled", value |-> NullImage,
                     cause |-> cause, unlinkFailed |-> exists /\ ~unlinkOk],
                 [dl EXCEPT !.files = Cleanup(@, path, unlinkOk),
                            !.task[t].step = "done",
                            !.task[t].response = NoResponse])

\* the request is answered, or fails (error, timeout)
DlResponse(t, ok, r, unlinkOk) ==
    /\ dl.phase = "downloading"
    /\ dl.task[t].step = "requesting"
    /\ IF ok
       THEN \* fs.createWriteStream(localPath): the file is there, still empty
            /\ dl' = [dl EXCEPT
                         !.task[t].step = "streaming",
                         !.task[t].response = r,
                         !.files = @ \cup {[path |-> LocalPath(dl.task[t].filename),
                                            complete |-> FALSE, size |-> 0]}]
            /\ UNCHANGED <<settled, queue, run>>
       ELSE DlFail(t, "requestFail", unlinkOk)
    /\ UNCHANGED <<cfg, jobs, submitLog, col, ai, run>>

\* the pipeline ends: the whole body is written, or the stream fails midway
DlStream(t, ok, size, unlinkOk) ==
    /\ dl.phase = "downloading"
    /\ dl.task[t].step = "streaming"
    /\ LET path == LocalPath(dl.task[t].filename) IN
       IF ok
       THEN /\ dl' = [dl EXCEPT
                         !.task[t].step = "written",
                         !.files = (@ \ FileAt(@, path))
                                   \cup {[path |-> path, complete |-> TRUE,
                                          size |-> size]}]
            /\ UNCHANGED <<settled, queue, run>>
       ELSE DlFail(t, "streamFail", unlinkOk)
    /\ UNCHANGED <<cfg, jobs, submitLog, col, ai, run>>

\* fs.promises.stat(localPath), then the ImageData is returned
DlStat(t, ok, unlinkOk) ==
    /\ dl.phase = "downloading"
    /\ dl.task[t].step = "written"
    /\ LET path == LocalPath(dl.task[t].filename)
           found == FileAt(dl.files, path)
           stats == IF found = {} THEN [size |-> 0]
                    ELSE CHOOSE f \in found : TRUE
       IN
       \* stat of a path that is not there throws as any other failure of stat
       IF ok /\ found # {}
       THEN DlSettle(t,
                 [status |-> "fulfilled",
                  value |-> [null |-> FALSE,
                             id |-> dl.task[t].imageId,
                             listingId |-> dl.listingId,
                             filename |-> dl.task[t].filename,
                             originalUrl |-> t,
                             localPath |-> path,
                             contentType |-> ContentTypeOf(dl.task[t].response),
                             size |-> IF stats.size # 0 THEN stats.size
                                      ELSE ContentLengthOf(dl.task[t].response)],
                  cause |-> "ok", unlinkFailed |-> FALSE],
                 [dl EXCEPT !.task[t].step = "done",
                            !.task[t].response = NoResponse])
       ELSE DlFail(t, "statFail", unlinkOk)
    /\ UNCHANGED <<cfg, jobs, submitLog, col, ai, run>>

\* the image queue's interval timer fires
DlTick ==
    /\ dl.phase = "downloading"
    /\ queue.pending > 0
    /\ queue' = QOnInterval(queue)
    /\ dl' = BeginAll(dl, StartedBy(queue, QOnInterval(queue)))
    /\ UNCHANGED <<cfg, jobs, submitLog, settled, col, ai, run>>

\* the filter over the downloads with the test on the value left out
KeepSettledDownload(r) == r.status = "fulfilled"

\* result.status === 'fulfilled' && result.value
KeepDownloaded(r) == r.status = "fulfilled" /\ ~r.value.null

RECURSIVE Downloaded(_, _)
Downloaded(results, k) ==
    IF k > Len(results) THEN <<>>
    ELSE (IF KeepDownloaded(results[k]) THEN <<results[k].value>> ELSE <<>>)
         \o Downloaded(results, k + 1)

\* the await of the downloads ends; the downloaded images are returned
DownloadReturn ==
    /\ dl.phase = "downloading"
    /\ AwaitAllSettled(settled) # "pending"
    /\ dl' = IF AwaitAllSettled(settled) = "thrown"
             THEN [dl EXCEPT !.phase = "thrown"]
             ELSE [dl EXCEPT !.phase = "returned",
                             !.images = Downloaded(settled, 1)]
    /\ UNCHANGED <<cfg, queue, jobs, submitLog, settled, col, ai, run>>

NextDownload ==
    \/ DownloadImages
    \/ \E t \in DOMAIN settled : DlReject(t)
    \/ \E t \in DOMAIN settled : \E ok, u \in BOOLEAN : \E r \in Responses :
          DlResponse(t, ok, r, u)
    \/ \E t \in DOMAIN settled : \E ok, u \in BOOLEAN : \E size \in BodySizes :
          DlStream(t, ok, size, u)
    \/ \E t \in DOMAIN settled : \E ok, u \in BOOLEAN : DlStat(t, ok, u)
    \/ DlTick
    \/ DownloadReturn

SpecDownload == InitDownload /\ [][NextDownload]_vars

-----------------------------------------------------------------------------
(* SpecAnalyze: the orchestrator's analyzeAntique calls, one after another, *)
(* each through the inference queue, and the saving of what they return     *)

MaxRetries == 3

AnalysisFields ==
    {"marketValue", "pricingAssessment", "pricingConfidence", "authenticityScore",
     "authenticityTips", "historicalContext", "additionalNotes"}

\* a response object as the prompt asks for it
GoodPayload ==
    [marketValue |-> JNum(1250 * One),
     pricingAssessment |-> JStr(Underpriced),
     pricingConfidence |-> JNum(8),
     authenticityScore |-> JNum(One),
     authenticityTips |-> JStr(<<"o", "k">>),
     historicalContext |-> JStr(<<"o", "l", "d">>),
     additionalNotes |-> JStr(<<"n", "b">>)]

\* what a field of a response object may hold instead
FieldSamples ==
    [marketValue |->
         {JUndefined, JNull, JNum(0 - 50),
          JStr(<<"$", "1", ",", "2", "5", "0">>),
          JStr(<<" ", "1", "2", ".", "5", " ">>), JStr(InfinityText), JObject},
     pricingAssessment |->
         {JUndefined, JNull, JNum(One), JStr(<<"F", "A", "I", "R">>),
          JStr(<<"O", "v", "e", "r", "p", "r", "i", "c", "e", "d">>),
          JStr(<<"c", "h", "e", "a", "p">>), JStr(<<" ", "f", "a", "i", "r">>)},
     pricingConfidence |->
         {JUndefined, JNull, JNum(15), JNum(0 - 5), JBool(TRUE),
          JStr(<<"0", ".", "5">>), JStr(<<"h", "i", "g", "h">>),
          JStr(<<"-", "I", "n", "f", "i", "n", "i", "t", "y">>)},
     authenticityScore |->
         {JUndefined, JNum(0), JNum(85 * One), JStr(<<"8", "5", "%">>), JObject},
     authenticityTips |->
         {JUndefined, JNull, JStr(<<>>), JStr(<<" ", " ">>),
          JStr(<<" ", "o", "k", " ">>), JNum(One)},
     historicalContext |-> {JUndefined, JStr(<<" ">>), JObject},
     additionalNotes |-> {JUndefined, JStr(<<>>), JBool(FALSE)}]

Payloads ==
    {GoodPayload, [f \in AnalysisFields |-> JUndefined]}
    \cup {[GoodPayload EXCEPT ![f] = v] :
              <<f, v>> \in UNION {{<<g, w>> : w \in FieldSamples[g]} :
                                     g \in AnalysisFields}}

Contents ==
    {NullContent, EmptyContent, GarbageContent,
     JsonContent(JNull), JsonContent(JNum(5 * One))}
    \cup {JsonContent(JPayload(p)) : p \in Payloads}

\* how one request to the upstream service ends
RequestOutcomes ==
    {[kind |-> "rateLimited", content |-> NullContent],
     [kind |-> "error", content |-> NullContent],
     [kind |-> "timeout", content |-> NullContent]}
    \cup {[kind |-> "response", content |-> c] : c \in Contents}

\* which path of parseResponse a content takes
PathOf(content) ==
    IF content.kind \in {"null", "empty"} THEN "empty"
    ELSE IF content.kind = "garbage" \/ content.value.t = "null" THEN "malformed"
    ELSE "parsed"

InitAnalyze ==
    /\ cfg \in ConfigsOf("analyze")
    /\ queue = NewQueue(PolicyOf("analyze", cfg))
    /\ jobs = NoJobs
    /\ submitLog = <<>>
    /\ settled = NoneSettled
    /\ col = ColIdle
    /\ dl = DlIdle
    /\ ai = AiIdle
    /\ run = RunIdle

\* analyzeAntique without its catch
AnalyzeAntiqueRethrows(s) ==
    IF s.status = "fulfilled" THEN [phase |-> "returned", result |-> s.value]
    ELSE [phase |-> "thrown", result |-> NoAnalysis]

\* analyzeAntique, from the settlement of the promise add() returned
AnalyzeAntiqueReturn(s) ==
    IF s.status = "fulfilled" THEN [phase |-> "returned", result |-> s.value]
    ELSE [phase |-> "returned", result |-> GetDefaultAnalysis]

\* run(), step 4: the call enters the queue and starts if both gates allow
AnalyzeAntique ==
    /\ ai.phase \in {"idle", "saved"}
    /\ ai.call < MaxCalls
    /\ LET k == ai.call + 1
           q2 == Submit(queue, k)
       IN  /\ queue' = q2
           /\ submitLog' = Append(submitLog, k)
           /\ jobs' = [jobs EXCEPT ![k] = SubmittedJob(k)]
           /\ ai' = [ai EXCEPT !.phase = IF k \in q2.running THEN "attempting"
                                         ELSE "queued",
                               !.call = k, !.attempt = 0, !.wait = 0,
                               !.requests = 0, !.limited = 0,
                               !.raw = NullContent,
                               !.result = NoAnalysis, !.how = "none",
                               !.got = 0, !.last = "none", !.thrown = "none",
                               !.sent = <<>>, !.waited = 0]
    /\ UNCHANGED <<cfg, settled, col, dl, run>>

\* performAnalysis is over: the queue task settles and analyzeAntique resumes
PerformAnalysisEnds(a, status, value, how) ==
    LET out == AnalyzeAntiqueReturn([status |-> status, value |-> value]) IN
    /\ settled' = [settled EXCEPT ![a.call] = [status |-> status, job |-> jobs[a.call]]]
    /\ queue' = QTaskDone(queue, a.call)
    /\ ai' = [a EXCEPT !.phase = out.phase, !.result = out.result, !.how = how]

\* Math.pow(2, attempt) * 1000
BackoffTime(attempt) == (2 ^ attempt) * 1000

\* the request of one pass: the model, the temperature, the token ceiling and
\* the two prompts, all of them built from the configuration and the listing
RequestOf(listing, attempt) == [listing |-> listing, retry |-> 0]

\* a catch without the test for the final attempt: it backs off every time
OnErrorAlwaysBackoff(a, kind) ==
    /\ ai' = [a EXCEPT !.phase = "backoff", !.waited = @ + 1,
                       !.wait = BackoffTime(a.attempt)]
    /\ UNCHANGED <<queue, settled>>

\* the catch of the loop for an error that is not a rate-limit signal
OnError(a, kind) ==
    IF a.attempt = MaxRetries - 1
    THEN PerformAnalysisEnds([a EXCEPT !.thrown = kind], "rejected", NoAnalysis,
                             "exhausted")
    ELSE /\ ai' = [a EXCEPT !.phase = "backoff", !.waited = @ + 1,
                            !.wait = BackoffTime(a.attempt)]
         /\ UNCHANGED <<queue, settled>>

\* a rate-limit signal handled as any other error
OnRateLimitAsError(a) == OnError([a EXCEPT !.limited = @ + 1], "rateLimited")

\* the catch of the loop for error.status === 429: wait, then continue
OnRateLimit(a) ==
    /\ ai' = [a EXCEPT !.phase = "backoff", !.limited = @ + 1,
                       !.waited = @ + 1, !.wait = BackoffTime(a.attempt)]
    /\ UNCHANGED <<queue, settled>>

\* a parseResponse that lets the failure of JSON.parse, and an empty content,
\* out to the catch of the loop
OnResponseStrict(a, content) ==
    IF PathOf(content) = "parsed"
    THEN PerformAnalysisEnds([a EXCEPT !.raw = content, !.got = @ + 1],
                             "fulfilled", ParseResponse(content), PathOf(content))
    ELSE OnError([a EXCEPT !.raw = content, !.got = @ + 1], "error")

\* the request was answered: parseResponse, and the return out of the loop
OnResponse(a, content) ==
    PerformAnalysisEnds([a EXCEPT !.raw = content, !.got = @ + 1], "fulfilled",
                        ParseResponse(content), PathOf(content))

\* one pass of the retry loop: the request and what the catch makes of it
AiRequest(o) ==
    /\ ai.phase = "attempting"
    /\ LET a == [ai EXCEPT !.requests = @ + 1, !.inWindow = @ + 1,
                           !.last = o.kind,
                           !.sent = Append(@, RequestOf(ai.call, ai.attempt))]
       IN  CASE o.kind = "response" -> OnResponse(a, o.content)
             [] o.kind = "rateLimited" -> OnRateLimit(a)
             [] o.kind \in {"error", "timeout"} -> OnError(a, o.kind)
    /\ UNCHANGED <<cfg, jobs, submitLog, col, dl, run>>

\* a loop whose counter does not advance after a backoff
AiBackoffElapsedSamePass ==
    /\ ai.phase = "backoff"
    /\ ai' = [ai EXCEPT !.phase = "attempting", !.wait = 0]
    /\ UNCHANGED <<cfg, queue, jobs, submitLog, settled, col, dl, run>>

\* the backoff timer fires: the next pass, or the throw after the loop
AiBackoffElapsed ==
    /\ ai.phase = "backoff"
    /\ LET a == [ai EXCEPT !.attempt = @ + 1, !.wait = 0] IN
       IF a.attempt < MaxRetries
       THEN /\ ai' = [a EXCEPT !.phase = "attempting", !.last = "none"]
            /\ UNCHANGED <<queue, settled, run>>
       ELSE PerformAnalysisEnds([a EXCEPT !.thrown = "failedAfterAttempts"],
                                "rejected", NoAnalysis, "exhausted")
    /\ UNCHANGED <<cfg, jobs, submitLog, col, dl, run>>

\* a window boundary of the inference queue
AiTick ==
    /\ queue.intervalCount > 0 \/ queue.waiting # <<>> \/ ai.inWindow > 0
    /\ queue' = QOnInterval(queue)
    /\ ai' = [ai EXCEPT !.inWindow = 0,
                        !.phase = IF ai.phase = "queued" /\ ai.call \in queue'.running
                                  THEN "attempting" ELSE @]
    /\ UNCHANGED <<cfg, jobs, submitLog, settled, col, dl, run>>

\* run(), step 5: saveAnalysis writes the seven fields as they were returned
SaveAnalysis ==
    /\ ai.phase = "returned"
    /\ ai' = [AiIdle EXCEPT !.phase = "saved", !.call = ai.call,
                           !.saved = ai.result, !.inWindow = ai.inWindow]
    /\ UNCHANGED <<cfg, queue, jobs, submitLog, settled, col, dl, run>>

NextAnalyze ==
    \/ AnalyzeAntique
    \/ \E o \in RequestOutcomes : AiRequest(o)
    \/ AiBackoffElapsed
    \/ AiTick
    \/ SaveAnalysis

SpecAnalyze == InitAnalyze /\ [][NextAnalyze]_vars

\* SpecRetry: the same calls with one usable and one empty response among the
\* outcomes; every request ends (the client has its own timeout) and every
\* timer fires
RetryOutcomes ==
    {o \in RequestOutcomes :
        o.kind = "response" =>
            o.content \in {NullContent, JsonContent(JPayload(GoodPayload))}}

NextRetry ==
    \/ AnalyzeAntique
    \/ \E o \in RetryOutcomes : AiRequest(o)
    \/ AiBackoffElapsed
    \/ AiTick
    \/ SaveAnalysis

SpecRetry ==
    /\ InitAnalyze
    /\ [][NextRetry]_vars
    /\ WF_vars(\E o \in RetryOutcomes : AiRequest(o))
    /\ WF_vars(AiBackoffElapsed)
    /\ WF_vars(AiTick)

-----------------------------------------------------------------------------
(* SpecValidate: one value of a response field, and what the validation of  *)
(* each kind of field makes of it.  ai holds the value and the result.      *)

NumericChars == {"1", "5", ".", "-", " ", "$", ","}

\* the strings a field can hold: every short string over the characters a
\* number is written with, and words, prices and percentages
ValidationStrings ==
    SeqsUpTo(NumericChars, MaxStrLen)
    \cup {Fair, Underpriced, Overpriced, InfinityText,
          <<"-">> \o InfinityText,
          <<"F", "A", "I", "R">>, <<"F", "a", "i", "r">>,
          <<"O", "v", "e", "r", "p", "r", "i", "c", "e", "d">>,
          <<"U", "N", "D", "E", "R", "P", "R", "I", "C", "E", "D">>,
          <<" ", "f", "a", "i", "r">>, <<"f", "a", "i", "r", "l", "y">>,
          <<"c", "h", "e", "a", "p">>, <<"h", "i", "g", "h">>,
          <<"n", "u", "l", "l">>, <<"t", "r", "u", "e">>,
          <<"$", "1", ",", "2", "5", "0">>, <<"1", ",", "2", "5", "0">>,
          <<"1", "2", "5", "0">>, <<"1", "2", "5", "0", ".", "5", "0">>,
          <<"8", "5", "%">>, <<"+", "1">>}

ValidationInputs ==
    {JUndefined, JNull, JBool(TRUE), JBool(FALSE), JNaN, JInf(1), JInf(0 - 1),
     JObject}
    \cup {JNum(n) : n \in (0 - MaxTenths)..MaxTenths}
    \cup {JStr(str) : str \in ValidationStrings}

InitValidate ==
    /\ cfg \in ConfigsOf("none")
    /\ queue = NewQueue(PolicyOf("inference", cfg))
    /\ jobs = NoJobs
    /\ submitLog = <<>>
    /\ settled = NoneSettled
    /\ col = ColIdle
    /\ dl = DlIdle
    /\ ai \in {[phase |-> "input", value |-> v, validated |-> JUndefined] :
                  v \in ValidationInputs}
    /\ run = RunIdle

\* the value as pricingConfidence or authenticityScore
ApplyValidateConfidence ==
    /\ ai.phase = "input"
    /\ ai' = [ai EXCEPT !.phase = "confidence",
                        !.validated = ValidateConfidence(ai.value)]
    /\ UNCHANGED <<cfg, queue, jobs, submitLog, settled, col, dl, run>>

\* the value as pricingAssessment
ApplyValidatePricingAssessment ==
    /\ ai.phase = "input"
    /\ ai' = [ai EXCEPT !.phase = "assessment",
                        !.validated = JStr(ValidatePricingAssessment(ai.value))]
    /\ UNCHANGED <<cfg, queue, jobs, submitLog, settled, col, dl, run>>

\* the value as the marketValue of a response that parseResponse reads
ApplyParseMarketValue ==
    /\ ai.phase = "input"
    /\ ai' = [ai EXCEPT
                 !.phase = "marketValue",
                 !.validated =
                     ParseResponse(JsonContent(JPayload(
                         [GoodPayload EXCEPT !.marketValue = ai.value]))).marketValue]
    /\ UNCHANGED <<cfg, queue, jobs, submitLog, settled, col, dl, run>>

\* the value as one of the text fields
ApplyValidateString ==
    /\ ai.phase = "input"
    /\ ai' = [ai EXCEPT !.phase = "text",
                        !.validated = JStr(ValidateString(ai.value, <<"No">>))]
    /\ UNCHANGED <<cfg, queue, jobs, submitLog, settled, col, dl, run>>

NextValidate ==
    \/ ApplyValidateConfidence
    \/ ApplyValidatePricingAssessment
    \/ ApplyParseMarketValue
    \/ ApplyValidateString

SpecValidate == InitValidate /\ [][NextValidate]_vars

-----------------------------------------------------------------------------
(* SpecRun: AntiqueAnalyzer.run.  collectListings and downloadImages run as  *)
(* in SpecCollect and SpecDownload, with fewer outcomes per step; queue is   *)
(* the queue of the stage that is running (the page queue, then the image    *)
(* queue); analyzeAntique is taken from its settlement.  The timer of the    *)
(* image queue is left out: a run starts at most MaxUrls * MaxImages         *)
(* downloads, fewer than the 20 starts the queue admits without it.          *)

\* the image URLs a record can carry: one that can be downloaded and, in the
\* first place only, one that is no URL
RunUrls == {u \in ImageUrls : u.pathname \in {<<"/", "a", ".", "png">>, <<>>}}
RunImageLists ==
    {l \in SeqsUpTo(RunUrls, MaxImages) : \A k \in 2..Len(l) : l[k].valid}
RunPageOutcomes ==
    {o \in PageOutcomes : o.kind \in {"newPageFail", "gotoFail", "noResults", "links"}}
RunDetailOutcomes == {"newPageFail", "gotoFail", "ok"}
RunResponses == {r \in Responses : r.hasLength}
RunBodySizes == {b \in BodySizes : b > 0}
RunSettlements ==
    {[status |-> "rejected", value |-> NoAnalysis],
     [status |-> "fulfilled",
      value |-> ParseResponse(JsonContent(JPayload(GoodPayload)))]}

\* a call run() has made: the operation, the record it is for, whether it
\* succeeded, a count (URLs passed, images returned, identifier of the image),
\* and for saveImage whether the image's file was completely written
Event(op, id, ok, n, written) ==
    [op |-> op, id |-> id, ok |-> ok, n |-> n, written |-> written, failed |-> 0]

\* the downloads of a downloadImages call that did not give an image
FailedIn(results) ==
    Cardinality({t \in DOMAIN results : results[t].cause # "ok"})

InitRun ==
    /\ cfg \in {c \in ConfigsOf("collect") : c.concurrency = 1}
    /\ queue = NewQueue(PolicyOf("collect", cfg))
    /\ jobs = <<>>
    /\ submitLog = <<>>
    /\ settled = <<>>
    /\ col = [ColIdle EXCEPT !.phase = "paging"]
    /\ dl = [DlIdle EXCEPT !.phase = "notCalled"]
    /\ ai = AiIdle
    /\ run = [RunIdle EXCEPT !.phase = "collecting"]

\* a run that goes on with the next record after a failed save
OnSaveErrorSkips(r, op) == [r EXCEPT !.phase = "loop", !.i = @ + 1]

\* a save throws: the catch of run() logs and rethrows
OnSaveError(r, op) == [r EXCEPT !.phase = "rejected", !.error = op]

\* a run that takes an empty collection for a failure
RunCollectedNonEmpty ==
    /\ run.phase = "collecting"
    /\ col.phase \in {"returned", "thrown"}
    /\ run' = IF col.phase = "thrown" \/ col.allListings = <<>>
              THEN [run EXCEPT !.phase = "rejected", !.error = "collectListings",
                               !.fetches = Len(queue.startLog)]
              ELSE [run EXCEPT !.phase = "loop", !.listings = col.allListings,
                               !.i = 1, !.fetches = Len(queue.startLog)]
    /\ queue' = NewQueue(ImagePolicy)
    /\ jobs' = <<>>
    /\ submitLog' = <<>>
    /\ settled' = <<>>
    /\ UNCHANGED <<cfg, col, dl, ai>>

\* a loop that takes the records from the end
ForOfReversed(listings) ==
    [k \in 1..Len(listings) |-> listings[Len(listings) + 1 - k]]

\* for (const listing of listings): the records in the order of the array
ForOf(listings) == listings

\* step 1: collectListings has returned or thrown; from here on queue is the
\* image queue
RunCollected ==
    /\ run.phase = "collecting"
    /\ col.phase \in {"returned", "thrown"}
    /\ run' = IF col.phase = "thrown"
              THEN [run EXCEPT !.phase = "rejected", !.error = "collectListings",
                               !.fetches = Len(queue.startLog)]
              ELSE [run EXCEPT !.phase = "loop",
                               !.listings = ForOf(col.allListings),
                               !.i = 1, !.fetches = Len(queue.startLog)]
    /\ queue' = NewQueue(ImagePolicy)
    /\ jobs' = <<>>
    /\ submitLog' = <<>>
    /\ settled' = <<>>
    /\ UNCHANGED <<cfg, col, dl, ai>>

\* INSERT OR REPLACE INTO listings, keyed by id: a row with that id is deleted
\* first, and with it (ON DELETE CASCADE) the image and analysis rows that
\* refer to it
SaveListingRow(db, listing) ==
    [listings |-> db.listings \cup {listing.id},
     images |-> {r \in db.images : r.listingId # listing.id},
     analyses |-> {r \in db.analyses : r.listingId # listing.id}]

\* a saveListing that returns no identifier
SavedListingIdNone(listing) == 0

\* return listing.id
SavedListingId(listing) == listing.id

\* step 2: saveListing for the next record
RunSaveListing(ok) ==
    /\ run.phase = "loop"
    /\ run.i <= Len(run.listings)
    /\ LET listing == run.listings[run.i]
           called == [run EXCEPT !.log = Append(@, Event("saveListing", listing.id,
                                                         ok, 0, FALSE))]
       IN  run' = IF ok
                  THEN [called EXCEPT !.db = SaveListingRow(@, listing),
                                      !.listingId = SavedListingId(listing),
                                      !.phase = "savedListing"]
                  ELSE OnSaveError(called, "saveListing")
    /\ UNCHANGED <<cfg, queue, jobs, submitLog, settled, col, dl, ai>>

\* step 4 placed inside the block that handles the images
ToStep4WithImages(r) ==
    IF r.listingId # 0 /\ r.images # <<>> THEN [r EXCEPT !.phase = "analyze"]
    ELSE [r EXCEPT !.phase = "loop", !.i = @ + 1]

\* if (listingId): step 4 follows, or the next record
ToStep4(r) ==
    IF r.listingId # 0 THEN [r EXCEPT !.phase = "analyze"]
    ELSE [r EXCEPT !.phase = "loop", !.i = @ + 1]

\* step 3: if the record has image URLs, downloadImages is called with them
RunImages(imageUrls) ==
    /\ run.phase = "savedListing"
    /\ LET listing == run.listings[run.i] IN
       IF imageUrls # <<>>
       THEN /\ dl' = [dl EXCEPT !.phase = "idle", !.urls = imageUrls,
                                !.listingId = listing.id, !.task = <<>>,
                                !.images = <<>>]
            /\ run' = [run EXCEPT !.phase = "downloading",
                                  !.log = Append(@, Event("downloadImages", listing.id,
                                                          TRUE, Len(imageUrls), FALSE))]
       ELSE /\ dl' = dl
            /\ run' = ToStep4(run)
    /\ UNCHANGED <<cfg, queue, jobs, submitLog, settled, col, ai>>

\* downloadImages has returned
RunDownloaded ==
    /\ run.phase = "downloading"
    /\ dl.phase \in {"returned", "thrown"}
    /\ LET listing == run.listings[run.i] IN
       run' = IF dl.phase = "thrown"
              THEN [run EXCEPT !.phase = "rejected", !.error = "downloadImages"]
              ELSE LET got == [run EXCEPT
                                  !.images = dl.images, !.j = 1,
                                  !.log = Append(@,
                                      [Event("downloaded", listing.id, TRUE,
                                             Len(dl.images), FALSE)
                                          EXCEPT !.failed = FailedIn(settled)])]
                   IN  IF dl.images = <<>> THEN ToStep4(got)
                       ELSE [got EXCEPT !.phase = "savingImages"]
    /\ dl' = [dl EXCEPT !.phase = "notCalled", !.urls = <<>>, !.task = <<>>,
                        !.images = <<>>]
    /\ jobs' = <<>>
    /\ submitLog' = <<>>
    /\ settled' = <<>>
    /\ UNCHANGED <<cfg, queue, col, ai>>

\* an images table keyed by listing_id
SaveImageRowPerListing(db, listingId, image) ==
    [db EXCEPT !.images = {r \in @ : r.listingId # listingId}
                          \cup {[id |-> image.id, listingId |-> listingId,
                                  localPath |-> image.localPath]}]

\* INSERT OR REPLACE INTO images, keyed by id; of the columns the row keeps
\* id, listing_id and local_path
SaveImageRow(db, listingId, image) ==
    [db EXCEPT !.images = {r \in @ : r.id # image.id}
                          \cup {[id |-> image.id, listingId |-> listingId,
                                  localPath |-> image.localPath]}]

\* saveImage for the next downloaded image
RunSaveImage(ok) ==
    /\ run.phase = "savingImages"
    /\ LET image == run.images[run.j]
           written == \E f \in FileAt(dl.files, image.localPath) : f.complete
           called == [run EXCEPT !.log = Append(@, Event("saveImage", run.listingId,
                                                         ok, image.id, written))]
       IN  run' = IF ok
                  THEN LET saved == [called EXCEPT
                                        !.db = SaveImageRow(@, run.listingId, image),
                                        !.j = @ + 1]
                       IN  IF run.j = Len(run.images) THEN ToStep4(saved) ELSE saved
                  ELSE OnSaveError(called, "saveImage")
    /\ UNCHANGED <<cfg, queue, jobs, submitLog, settled, col, dl, ai>>

\* step 4: analyzeAntique, from the settlement of its queue task
RunAnalyze(s) ==
    /\ run.phase = "analyze"
    /\ LET listing == run.listings[run.i]
           out == AnalyzeAntiqueReturn(s)
           called == [run EXCEPT !.log = Append(@, Event("analyzeAntique", listing.id,
                                                         out.phase = "returned", 0,
                                                         FALSE))]
       IN  run' = IF out.phase = "returned"
                  THEN [called EXCEPT !.analysis = out.result,
                                      !.phase = "saveAnalysis"]
                  ELSE [called EXCEPT !.phase = "rejected",
                                      !.error = "analyzeAntique"]
    /\ UNCHANGED <<cfg, queue, jobs, submitLog, settled, col, dl, ai>>

\* FOREIGN KEY (listing_id) REFERENCES listings (id), with foreign_keys = ON:
\* the insert fails when the listing row is not there
ForeignKeyFails(db, listingId) == listingId \notin db.listings

\* a plain INSERT into a table without the UNIQUE constraint
SaveAnalysisRowInsert(db, listingId, analysis) ==
    [db EXCEPT !.analyses = @ \cup {[listingId |-> listingId, analysis |-> analysis]}]

\* INSERT OR REPLACE INTO analyses; listing_id is UNIQUE
SaveAnalysisRow(db, listingId, analysis) ==
    [db EXCEPT !.analyses = {r \in @ : r.listingId # listingId}
                            \cup {[listingId |-> listingId, analysis |-> analysis]}]

\* step 5: saveAnalysis, then the next record
RunSaveAnalysis(ok) ==
    /\ run.phase = "saveAnalysis"
    /\ LET called == [run EXCEPT !.log = Append(@, Event("saveAnalysis", run.listingId,
                                                         ok, 0, FALSE))]
       IN  run' = IF ok
                  THEN [called EXCEPT
                           !.db = SaveAnalysisRow(@, run.listingId, run.analysis),
                           !.lastSaved = (run.listingId :> run.analysis) @@ @,
                           !.analysis = NoAnalysis,
                           !.i = @ + 1, !.phase = "loop"]
                  ELSE OnSaveError(called, "saveAnalysis")
    /\ UNCHANGED <<cfg, queue, jobs, submitLog, settled, col, dl, ai>>

\* the loop over the records is over: run() resolves
RunComplete ==
    /\ run.phase = "loop"
    /\ run.i > Len(run.listings)
    /\ run' = [run EXCEPT !.phase = "done"]
    /\ UNCHANGED <<cfg, queue, jobs, submitLog, settled, col, dl, ai>>

NextRun ==
    \/ \E o \in RunPageOutcomes : ResultPage(o)
    \/ SubmitListings
    \/ \E t \in DOMAIN settled : \E o \in RunDetailOutcomes : DetailFinish(t, o)
    \/ DetailTick
    \/ CollectReturn
    \/ RunCollected
    \/ \E ok \in BOOLEAN : RunSaveListing(ok)
    \/ \E imageUrls \in RunImageLists : RunImages(imageUrls)
    \/ DownloadImages
    \/ \E t \in DOMAIN settled : DlReject(t)
    \/ \E t \in DOMAIN settled : \E ok \in BOOLEAN : \E r \in RunResponses :
          DlResponse(t, ok, r, TRUE)
    \/ \E t \in DOMAIN settled : \E ok \in BOOLEAN : \E size \in RunBodySizes :
          DlStream(t, ok, size, TRUE)
    \/ \E t \in DOMAIN settled : \E ok \in BOOLEAN : DlStat(t, ok, TRUE)
    \/ DownloadReturn
    \/ RunDownloaded
    \/ \E ok \in BOOLEAN : RunSaveImage(ok)
    \/ \E s \in RunSettlements : RunAnalyze(s)
    \/ \E ok \in BOOLEAN : RunSaveAnalysis(ok)
    \/ RunComplete

SpecRun == InitRun /\ [][NextRun]_vars

-----------------------------------------------------------------------------
(* SpecStore: DatabaseService under any sequence of saveListing and          *)
(* saveAnalysis calls.  A listing identifier stands for one listing with     *)
(* its own URL; run.listingId and run.analysis hold the arguments of the     *)
(* last saveAnalysis call.                                                   *)

StoreListings == {[null |-> FALSE, id |-> k, url |-> k,
                   postedDate |-> "fetchTime"] : k \in Urls}

\* the analyses handed to saveAnalysis: the fallback, a parsed one and a
\* repaired one
StoreAnalyses ==
    {GetDefaultAnalysis,
     ParseResponse(JsonContent(JPayload(GoodPayload))),
     ParseResponse(JsonContent(JNum(5 * One)))}

InitStore ==
    /\ cfg \in ConfigsOf("none")
    /\ queue = NewQueue(PolicyOf("analyze", cfg))
    /\ jobs = NoJobs
    /\ submitLog = <<>>
    /\ settled = NoneSettled
    /\ col = ColIdle
    /\ dl = DlIdle
    /\ ai = AiIdle
    /\ run = [RunIdle EXCEPT !.phase = "store"]

\* saveListing(listing); ok is whether the database can be written
StoreSaveListing(listing, ok) ==
    /\ run.phase \in {"store", "saved", "saveFailed"}
    /\ run' = IF ok
              THEN [run EXCEPT !.db = SaveListingRow(@, listing),
                               !.listingId = 0, !.analysis = NoAnalysis,
                               !.phase = "saved", !.error = "none"]
              ELSE [run EXCEPT !.listingId = 0, !.analysis = NoAnalysis,
                               !.phase = "saveFailed", !.error = "saveListing"]
    /\ UNCHANGED <<cfg, queue, jobs, submitLog, settled, col, dl, ai>>

\* saveAnalysis(listingId, analysis)
StoreSaveAnalysis(listingId, analysis, ok) ==
    /\ run.phase \in {"store", "saved", "saveFailed"}
    /\ run' = IF ok /\ ~ForeignKeyFails(run.db, listingId)
              THEN [run EXCEPT !.db = SaveAnalysisRow(@, listingId, analysis),
                               !.lastSaved = (listingId :> analysis) @@ @,
                               !.listingId = listingId, !.analysis = analysis,
                               !.phase = "saved", !.error = "none"]
              ELSE [run EXCEPT !.listingId = listingId, !.analysis = analysis,
                               !.phase = "saveFailed", !.error = "saveAnalysis"]
    /\ UNCHANGED <<cfg, queue, jobs, submitLog, settled, col, dl, ai>>

NextStore ==
    \/ \E l \in StoreListings : \E ok \in BOOLEAN : StoreSaveListing(l, ok)
    \/ \E id \in Urls : \E a \in StoreAnalyses : \E ok \in BOOLEAN :
          StoreSaveAnalysis(id, a, ok)

SpecStore == InitStore /\ [][NextStore]_vars

-----------------------------------------------------------------------------
(* SpecMain: main() of index.ts around the run of SpecRun: initialize(),     *)
(* run(), the catch and the finally block.  run.main holds the position of   *)
(* main and the two resources cleanup() releases.                            *)

DbInitializeOutcomes == {"ok", "openFail", "schemaFail"}

InitMain ==
    /\ cfg \in {c \in ConfigsOf("collect") : c.concurrency = 1}
    /\ queue = NewQueue(PolicyOf("collect", cfg))
    /\ jobs = <<>>
    /\ submitLog = <<>>
    /\ settled = <<>>
    /\ col = ColIdle
    /\ dl = [DlIdle EXCEPT !.phase = "notCalled"]
    /\ ai = AiIdle
    /\ run = [RunIdle EXCEPT !.main.pc = "dbInitialize"]

\* DatabaseService.initialize: open(), the pragma and createTables in one try
\* whose catch rethrows; after a failure of the pragma or of the schema the
\* connection is open
DbInitialize(m, o) ==
    CASE o = "ok" -> [m EXCEPT !.db = "open", !.pc = "scraperInitialize"]
      [] o = "openFail" -> [m EXCEPT !.pc = "catch"]
      [] o = "schemaFail" -> [m EXCEPT !.db = "open", !.pc = "catch"]

\* AntiqueAnalyzer.initialize, first await: this.db.initialize()
MainDbInitialize(o) ==
    /\ run.main.pc = "dbInitialize"
    /\ run' = [run EXCEPT !.main = DbInitialize(@, o)]
    /\ UNCHANGED <<cfg, queue, jobs, submitLog, settled, col, dl, ai>>

\* CraigslistScraper.initialize: puppeteer.launch
ScraperInitialize(m, ok) ==
    IF ok THEN [m EXCEPT !.browser = "open", !.pc = "run"]
    ELSE [m EXCEPT !.pc = "catch"]

\* AntiqueAnalyzer.initialize, second await: this.scraper.initialize(); when
\* it resolves main calls run(), which calls collectListings
MainScraperInitialize(ok) ==
    /\ run.main.pc = "scraperInitialize"
    /\ run' = [run EXCEPT !.main = ScraperInitialize(@, ok),
                          !.phase = IF ok THEN "collecting" ELSE @]
    /\ col' = IF ok THEN [col EXCEPT !.phase = "paging"] ELSE col
    /\ UNCHANGED <<cfg, queue, jobs, submitLog, settled, dl, ai>>

\* await analyzer.run() settles: a rejection enters the catch of main, a
\* resolution leaves the try for the finally block
MainRunSettled ==
    /\ run.main.pc = "run"
    /\ run.phase \in {"done", "rejected"}
    /\ run' = [run EXCEPT !.main.pc = IF run.phase = "rejected" THEN "catch"
                                      ELSE "finally"]
    /\ UNCHANGED <<cfg, queue, jobs, submitLog, settled, col, dl, ai>>

\* process.exit(1): the process ends inside the call; nothing after it runs,
\* the finally block of the enclosing try included
ProcessExit(m) == [m EXCEPT !.pc = "ended", !.exit = "exit1"]

\* the catch of main: console.error, then process.exit(1)
MainCatch ==
    /\ run.main.pc = "catch"
    /\ run' = [run EXCEPT !.main = ProcessExit(@)]
    /\ UNCHANGED <<cfg, queue, jobs, submitLog, settled, col, dl, ai>>

\* CraigslistScraper.close: if (this.browser) await this.browser.close();
\* a rejection leaves cleanup() and main(), whose promise nothing handles
ScraperClose(m, ok) ==
    IF m.browser # "open"
    THEN [m EXCEPT !.cleanup = Append(@, "scraper.close"), !.pc = "dbClose"]
    ELSE IF ok
    THEN [m EXCEPT !.cleanup = Append(@, "scraper.close"), !.browser = "closed",
                   !.pc = "dbClose"]
    ELSE [m EXCEPT !.cleanup = Append(@, "scraper.close"), !.pc = "ended",
                   !.exit = "unhandledRejection"]

\* the finally block of main: cleanup(), first await
MainCleanupScraper(ok) ==
    /\ run.main.pc = "finally"
    /\ run' = [run EXCEPT !.main = ScraperClose(@, ok)]
    /\ UNCHANGED <<cfg, queue, jobs, submitLog, settled, col, dl, ai>>

\* DatabaseService.close: if (this.db) await this.db.close(); main() then
\* returns and the process ends with nothing left to do
DbClose(m, ok) ==
    IF m.db # "open"
    THEN [m EXCEPT !.cleanup = Append(@, "db.close"), !.pc = "ended",
                   !.exit = "returned"]
    ELSE IF ok
    THEN [m EXCEPT !.cleanup = Append(@, "db.close"), !.db = "closed",
                   !.pc = "ended", !.exit = "returned"]
    ELSE [m EXCEPT !.cleanup = Append(@, "db.close"), !.pc = "ended",
                   !.exit = "unhandledRejection"]

\* cleanup(), second await
MainCleanupDb(ok) ==
    /\ run.main.pc = "dbClose"
    /\ run' = [run EXCEPT !.main = DbClose(@, ok)]
    /\ UNCHANGED <<cfg, queue, jobs, submitLog, settled, col, dl, ai>>

NextMain ==
    \/ \E o \in DbInitializeOutcomes : MainDbInitialize(o)
    \/ \E ok \in BOOLEAN : MainScraperInitialize(ok)
    \/ NextRun
    \/ MainRunSettled
    \/ MainCatch
    \/ \E ok \in BOOLEAN : MainCleanupScraper(ok)
    \/ \E ok \in BOOLEAN : MainCleanupDb(ok)

SpecMain == InitMain /\ [][NextMain]_vars

-----------------------------------------------------------------------------
(* Claims about the queue instances *)

\* the caps the design states for each instance
ClaimedConcurrency ==
    CASE queue.policy.kind = "page" -> cfg.concurrency
      [] queue.policy.kind = "image" -> 10
      [] queue.policy.kind = "inference" -> cfg.concurrentRequests

ClaimedWindowCap ==
    CASE queue.policy.kind = "page" -> 1
      [] queue.policy.kind = "image" -> 20
      [] queue.policy.kind = "inference" -> cfg.requestsPerMinute

StartedTasks == [i \in 1..Len(queue.startLog) |-> queue.startLog[i].task]

\* C1: in every reachable state of a queue instance the number of tasks that
\* have started and not yet finished is at most that instance's concurrency cap.
C1_InFlightWithinCap ==
    Cardinality(queue.running) <= ClaimedConcurrency

\* the cap is reached and it alone holds a task back
C1_Witness ==
    /\ Cardinality(queue.running) = ClaimedConcurrency
    /\ queue.waiting # <<>>
    /\ QDoesIntervalAllowAnother(queue)

\* C2: the starts within one rate window never exceed the window's cap, and
\* every start was made when the rate budget and the concurrency cap both
\* admitted it.
C2_StartsWithinWindowCap ==
    /\ queue.windowStarts <= ClaimedWindowCap
    /\ \A i \in 1..Len(queue.startLog) :
          /\ queue.startLog[i].intervalCount < ClaimedWindowCap
          /\ queue.startLog[i].pending < ClaimedConcurrency

\* the window's budget is used up and it alone holds a task back
C2_Witness ==
    /\ queue.windowStarts = ClaimedWindowCap
    /\ queue.waiting # <<>>
    /\ QDoesConcurrentAllowAnother(queue)

\* C3: tasks start in the order of their submission: the started tasks are
\* always the first ones submitted, in that order, so no task starts while an
\* earlier-submitted one still waits.
C3_StartsAreFifo ==
    /\ Len(queue.startLog) <= Len(submitLog)
    /\ StartedTasks = SubSeq(submitLog, 1, Len(queue.startLog))

\* three tasks, submitted in an order that is not the order of their names,
\* the third held back and started later; the second has finished while the
\* first still runs
C3_Witness ==
    /\ Len(queue.startLog) = 3
    /\ submitLog[1] > submitLog[2]
    /\ queue.held # {}
    /\ submitLog[1] \in queue.running
    /\ settled[submitLog[2]].status # "none"

\* C4: a submission is never refused: a task submitted to a saturated queue is
\* held, is not settled while it waits, eventually starts and settles, and its
\* submitter gets the result or the failure of its own job.
C4_SubmitHoldsThenDelivers ==
    /\ [](\A t \in Submitted :
            /\ (t \in QWaitingTasks(queue) \/ t \in queue.running
                    \/ settled[t].status # "none")
            /\ (t \in QWaitingTasks(queue) => settled[t].status = "none")
            /\ (settled[t].status # "none" =>
                    /\ settled[t].status \in {"fulfilled", "rejected"}
                    /\ settled[t].job = t))
    /\ \A t \in Tasks :
          (t \in QWaitingTasks(queue)) ~> (settled[t].status # "none")

\* a task that was held back at its submission has received its job's failure
C4_Witness ==
    \E t \in queue.held : settled[t] = [status |-> "rejected", job |-> t]

-----------------------------------------------------------------------------
(* Claims about collectListings *)

\* the detail fetches issued for url: the started tasks whose job it is
FetchesOf(url) ==
    Cardinality({i \in 1..Len(queue.startLog) : jobs[queue.startLog[i].task] = url})

\* C5: collect() issues exactly one detail fetch per distinct URL the result
\* pages listed, however often it was listed, none for any other URL, and none
\* while the result pages are still being read.
C5_OneFetchPerUrl ==
    /\ \A u \in Urls : FetchesOf(u) <= 1
    /\ (col.phase \in {"paging", "collected", "thrown"} => queue.startLog = <<>>)
    /\ (col.phase = "returned" =>
           \A u \in Urls : FetchesOf(u) = IF u \in col.listed THEN 1 ELSE 0)

\* collect() has returned after two result pages listed the same URL
C5_Witness ==
    /\ col.phase = "returned"
    /\ col.repeatedAcross
    /\ \E u \in col.listed : FetchesOf(u) = 1

RECURSIVE UrlsFetchedOk(_)
UrlsFetchedOk(k) ==
    IF k > Len(settled) THEN <<>>
    ELSE (IF settled[k].cause = "ok" THEN <<jobs[k]>> ELSE <<>>) \o UrlsFetchedOk(k + 1)

\* C10: a detail fetch that fails yields no record and leaves the others alone:
\* collect() never throws once the detail fetches are under way, and it returns
\* exactly the records of the URLs whose fetch succeeded on a page that was not
\* removed or expired.
C10_FailedFetchIsolated ==
    /\ (col.phase = "thrown" => queue.startLog = <<>>)
    /\ (col.phase = "returned" =>
           /\ [k \in 1..Len(col.allListings) |-> col.allListings[k].url]
                 = UrlsFetchedOk(1)
           /\ \A k \in 1..Len(col.allListings) : ~col.allListings[k].null)

\* collect() has returned one record although another fetch timed out or failed
\* to extract
C10_Witness ==
    /\ col.phase = "returned"
    /\ Len(col.allListings) = 1
    /\ \E t \in DOMAIN settled : settled[t].cause \in {"gotoFail", "extractFail"}

-----------------------------------------------------------------------------
(* Claims about downloadImages and downloadImage *)

RECURSIVE SlotsDownloadedOk(_)
SlotsDownloadedOk(k) ==
    IF k > Len(settled) THEN <<>>
    ELSE (IF settled[k].cause = "ok" THEN <<k>> ELSE <<>>) \o SlotsDownloadedOk(k + 1)

\* C8: downloadAll never throws, whatever fails for single URLs: it returns
\* exactly the assets of the URLs whose download succeeded, in order, and the
\* files of those downloads are whole and in place when it returns.
C8_DownloadAllAbsorbsFailures ==
    /\ dl.phase # "thrown"
    /\ (dl.phase = "returned" =>
           /\ [k \in 1..Len(dl.images) |-> dl.images[k].originalUrl]
                 = SlotsDownloadedOk(1)
           /\ \A k \in 1..Len(dl.images) :
                 /\ ~dl.images[k].null
                 /\ \E f \in FileAt(dl.files, dl.images[k].localPath) : f.complete)

\* of two URLs one is no URL at all and the other was downloaded
C8_Witness ==
    /\ dl.phase = "returned"
    /\ Len(dl.images) = 1
    /\ \E t \in DOMAIN settled : settled[t].cause = "badUrl"

FailedDownloads ==
    {t \in DOMAIN settled : settled[t].cause \in {"requestFail", "streamFail", "statFail"}}

-----------------------------------------------------------------------------
(* Claims about the analysis *)

\* the fallback Enrichment as the design states it
IsFallback(e) ==
    /\ e.marketValue = JNum(0)
    /\ e.pricingAssessment = Fair
    /\ e.pricingConfidence = JNum(0)
    /\ e.authenticityScore = JNum(0)
    /\ e.authenticityTips = GetDefaultAnalysis.authenticityTips
    /\ e.historicalContext = GetDefaultAnalysis.historicalContext
    /\ e.additionalNotes = GetDefaultAnalysis.additionalNotes

\* C6: analyzeAntique never propagates a failure: whatever the requests of a
\* call end in, the call returns an Enrichment, and when the retry loop has used
\* up its attempts the Enrichment is the fallback (market value 0, "fair",
\* both scores 0, the placeholder texts)
C6_AnalyzeNeverThrows ==
    /\ ai.phase # "thrown"
    /\ ai.phase = "returned" =>
          /\ DOMAIN ai.result = AnalysisFields
          /\ ai.how = "exhausted" => IsFallback(ai.result)

C6_Witness ==
    /\ ai.phase = "returned"
    /\ ai.how = "exhausted"
    /\ ai.requests = MaxRetries
    /\ settled[ai.call].status = "rejected"
    /\ IsFallback(ai.result)

\* an Enrichment with every field present and within its domain
WellFormed(e) ==
    /\ DOMAIN e = AnalysisFields
    /\ e.pricingAssessment \in {Underpriced, Overpriced, Fair}
    /\ \A f \in {"pricingConfidence", "authenticityScore"} :
          e[f].t = "number" /\ 0 <= e[f].n /\ e[f].n <= One
    /\ e.marketValue.t \in {"number", "infinity"}
    /\ \A f \in {"authenticityTips", "historicalContext", "additionalNotes"} :
          Trim(e[f]) # <<>>

\* C7: every Enrichment analyzeAntique returns, and every one the orchestrator
\* saves, whether the response was usable, empty, malformed or never came, has
\* the seven fields, an assessment among underpriced / overpriced / fair, both
\* scores within [0, 1], a numeric market value and non-blank texts
C7_EnrichmentWellFormed ==
    /\ ai.phase = "returned" => WellFormed(ai.result)
    /\ ai.saved # NoAnalysis => WellFormed(ai.saved)

C7_Witness ==
    /\ ai.phase = "returned"
    /\ ai.how = "parsed"
    /\ "fields" \in DOMAIN ai.raw.value
    /\ ai.raw.value.fields.pricingConfidence = JNum(15)
    /\ ai.result.pricingConfidence = JNum(One)
    /\ ai.saved # NoAnalysis

\* C11: the retry loop sends at most three requests for one analyze call and
\* always ends: a call that has started reaches its return, and after a third
\* failed attempt performAnalysis ends with a failure, whatever the mix of
\* rate-limit signals and other errors
C11_RetryLoopBounded ==
    /\ [](/\ ai.requests <= 3
          /\ ai.attempt <= 3
          /\ (ai.phase = "returned" /\ ai.requests = 3 /\ ai.how \notin
                  {"parsed", "empty", "malformed"})
                => settled[ai.call].status = "rejected")
    /\ \A k \in 1..MaxCalls :
          (ai.call = k /\ ai.phase \in {"queued", "attempting", "backoff"})
              ~> (ai.call = k /\ ai.phase = "returned")

\* three failed attempts, rate limits and other errors among them
C11_Witness ==
    /\ ai.phase = "returned"
    /\ ai.requests = 3
    /\ ai.limited \in {1, 2}
    /\ settled[ai.call].status = "rejected"

-----------------------------------------------------------------------------
(* Claims about the page loop *)

\* the result pages that listed fewer links than the configured page size
ShortPages ==
    {col.linkCounts[k].page :
        k \in {c \in DOMAIN col.linkCounts : col.linkCounts[c].n < cfg.resultsPerPage}}

\* C15: once a result page has listed fewer links than the configured page
\* size, collect() navigates to no further result page, and the URLs gathered
\* up to and including that page are still detail-fetched
C15_ShortPageEndsPaging ==
    \A p \in ShortPages :
        /\ col.navigated = p
        /\ col.phase \in {"collected", "detail", "returned"}
        /\ col.phase = "returned" =>
              \A u \in Range(col.listingUrls) : FetchesOf(u) = 1

\* a short page before the last allowed page, its URLs fetched
C15_Witness ==
    /\ col.phase = "returned"
    /\ \E p \in ShortPages : p < cfg.maxPages
    /\ col.listingUrls # <<>>
    /\ \A u \in Range(col.listingUrls) : FetchesOf(u) = 1

-----------------------------------------------------------------------------
(* Claims about the run *)

Calls == 1..Len(run.log)
CallsOf(op, id) == {k \in Calls : run.log[k].op = op /\ run.log[k].id = id}

\* the records run() is through with: saved, downloaded, analysed
RecordsDone == {run.listings[m].id : m \in 1..(run.i - 1)}

\* C12: for every record, saveListing has succeeded before downloadImages,
\* saveImage, analyzeAntique or saveAnalysis is called for it; and every record
\* run() is through with was analysed, whether it had no image URLs, some
\* failed downloads or only failed downloads
C12_RecordFirstThenEnrichment ==
    /\ \A k \in Calls :
          run.log[k].op # "saveListing" =>
              \E j \in 1..(k - 1) :
                  /\ run.log[j].op = "saveListing"
                  /\ run.log[j].ok
                  /\ run.log[j].id = run.log[k].id
    /\ \A id \in RecordsDone : CallsOf("analyzeAntique", id) # {}

\* a finished run with one record without image URLs and one whose downloads
\* all failed, both analysed
C12_Witness ==
    /\ run.phase = "done"
    /\ \E a, b \in RecordsDone :
          /\ CallsOf("downloadImages", a) = {}
          /\ CallsOf("analyzeAntique", a) # {}
          /\ \E k \in CallsOf("downloaded", b) : run.log[k].n = 0
          /\ CallsOf("analyzeAntique", b) # {}

\* the rows the successful saves have written
RowsSaved ==
    [listings |-> {run.log[k].id :
                      k \in {c \in Calls : run.log[c].op = "saveListing" /\ run.log[c].ok}},
     images |-> {[id |-> run.log[k].n, listingId |-> run.log[k].id] :
                      k \in {c \in Calls : run.log[c].op = "saveImage" /\ run.log[c].ok}},
     analyses |-> {run.log[k].id :
                      k \in {c \in Calls : run.log[c].op = "saveAnalysis" /\ run.log[c].ok}}]

\* C13: when saveListing, saveImage or saveAnalysis fails, run() rejects with
\* that error; the failed call is the last call of the run (no later stage for
\* the record, none for a later record), and the database holds what the
\* earlier saves wrote
C13_SaveFailureAbortsRun ==
    /\ \A k \in Calls :
          ~run.log[k].ok =>
              /\ k = Len(run.log)
              /\ run.log[k].op \in {"saveListing", "saveImage", "saveAnalysis"}
              /\ run.phase = "rejected"
              /\ run.error = run.log[k].op
              /\ dl.phase \in {"notCalled", "returned"}
    /\ run.db.listings = RowsSaved.listings
    /\ {[id |-> r.id, listingId |-> r.listingId] : r \in run.db.images}
          = RowsSaved.images
    /\ {r.listingId : r \in run.db.analyses} = RowsSaved.analyses

\* saveImage has failed for the second record; the first one is fully saved
C13_Witness ==
    /\ run.phase = "rejected"
    /\ run.error = "saveImage"
    /\ run.i = 2
    /\ RowsSaved.analyses # {}
    /\ Cardinality(run.db.listings) = 2

\* C14: an image row is saved only for a download whose file was completely
\* written: at every saveImage call the file at the image's local path is
\* there and complete, and the images handed to saveImage are never those of a
\* failed download
C14_AssetSavedAfterWrite ==
    /\ \A k \in Calls : run.log[k].op = "saveImage" => run.log[k].written
    /\ \A j \in 1..Len(run.images) : ~run.images[j].null
    /\ \A id \in {run.log[k].id : k \in Calls} :
          \A d \in CallsOf("downloaded", id) :
              Cardinality(CallsOf("saveImage", id)) <= run.log[d].n

\* an image saved for a record of which another download failed
C14_Witness ==
    \E k \in Calls :
        /\ run.log[k].op = "saveImage"
        /\ run.log[k].ok
        /\ run.log[k].written
        /\ \E d \in CallsOf("downloaded", run.log[k].id) : run.log[d].failed > 0

\* the search came back empty: the page loop is over and no URL was gathered
EmptySearch ==
    /\ col.phase \in {"collected", "detail", "returned"}
    /\ col.listingUrls = <<>>

\* C16: a run whose search gives no listing issues no detail fetch, no
\* download and no inference call, saves nothing, and does not fail: after
\* collectListings it can only complete
C16_EmptySearchEmptyRun ==
    EmptySearch =>
        /\ queue.startLog = <<>>
        /\ run.fetches = 0
        /\ run.log = <<>>
        /\ run.db = EmptyDb
        /\ dl.phase = "notCalled"
        /\ dl.files = {}
        /\ run.phase \in {"collecting", "loop", "done"}
        /\ run.phase = "loop" => run.i > Len(run.listings)

\* the run is done after a first result page without listings
C16_Witness ==
    /\ EmptySearch
    /\ col.navigated = 1
    /\ run.phase = "done"

\* C17: for a record run() is through with, of whose n image URLs k downloads
\* failed, n - k image rows are saved, and its analysis is saved too
C17_RowsAreUrlsLessFailures ==
    \A id \in RecordsDone :
        /\ \A c \in CallsOf("downloadImages", id) :
              \A d \in CallsOf("downloaded", id) :
                  Cardinality({r \in run.db.images : r.listingId = id})
                      = run.log[c].n - run.log[d].failed
        /\ CallsOf("downloadImages", id) = {} =>
              {r \in run.db.images : r.listingId = id} = {}
        /\ \E r \in run.db.analyses : r.listingId = id

\* three URLs, one failed download, two rows
C17_Witness ==
    \E id \in RecordsDone :
        /\ \E c \in CallsOf("downloadImages", id) : run.log[c].n = 3
        /\ \E d \in CallsOf("downloaded", id) : run.log[d].failed = 1
        /\ Cardinality({r \in run.db.images : r.listingId = id}) = 2
        /\ \E r \in run.db.analyses : r.listingId = id

\* the place of a record in what collectListings returned
PlaceOf(id) ==
    CHOOSE p \in 1..Len(col.allListings) : col.allListings[p].id = id

\* C35: run() handles the records one after another in the order
\* collectListings returned them: the calls for a record never precede a call
\* for an earlier record, the first call for a record follows the saveAnalysis
\* of the record before it, and the downloads in flight all belong to the
\* record being handled
C35_RecordsOneAfterAnother ==
    /\ \A k, m \in Calls :
          k < m => PlaceOf(run.log[k].id) <= PlaceOf(run.log[m].id)
    /\ \A k \in Calls :
          (run.log[k].op = "saveListing" /\ PlaceOf(run.log[k].id) > 1) =>
              \E m \in 1..(k - 1) :
                  /\ run.log[m].op = "saveAnalysis"
                  /\ run.log[m].ok
                  /\ PlaceOf(run.log[m].id) = PlaceOf(run.log[k].id) - 1
    /\ run.phase = "downloading" =>
          /\ dl.listingId = run.listings[run.i].id
          /\ \A t \in DOMAIN dl.task :
                dl.task[t].filename # NoPath =>
                    dl.task[t].filename.listingId = run.listings[run.i].id
    /\ run.phase # "downloading" =>
          \A t \in DOMAIN dl.task : dl.task[t].step \in {"queued", "done"}

\* the second record's image is being written after the first record, which
\* had images too, was analysed and saved
C35_Witness ==
    /\ run.phase = "downloading"
    /\ run.i = 2
    /\ \E t \in DOMAIN dl.task : dl.task[t].step = "written"
    /\ CallsOf("saveImage", run.listings[1].id) # {}
    /\ CallsOf("saveAnalysis", run.listings[1].id) # {}

-----------------------------------------------------------------------------
(* Claims about the validation *)

\* a string no number can be read from: a character that no number is written
\* with, and not the word Infinity (none of the strings drawn has an exponent
\* or a radix prefix)
Unreadable(str) ==
    /\ \E i \in DOMAIN str : str[i] \notin (Range(Digits) \cup {".", "-", "+", " "})
    /\ Trim(str) \notin {InfinityText, <<"-">> \o InfinityText, <<"+">> \o InfinityText}

\* C18: the validation of pricingConfidence and authenticityScore gives a value
\* in [0, 1] for every input: a number in the range is kept, a number below 0
\* becomes 0, one above 1 becomes 1, and a missing, null or non-numeric input
\* (a word, an object, NaN) becomes 0
C18_ConfidenceClamped ==
    ai.phase = "confidence" =>
        /\ ai.validated.t = "number"
        /\ 0 <= ai.validated.n /\ ai.validated.n <= One
        /\ (ai.value.t = "number" /\ 0 <= ai.value.n /\ ai.value.n <= One)
              => ai.validated = ai.value
        /\ (ai.value.t = "number" /\ ai.value.n < 0) => ai.validated = JNum(0)
        /\ (ai.value.t = "number" /\ ai.value.n > One) => ai.validated = JNum(One)
        /\ ai.value.t \in {"undefined", "null", "nan", "object"}
              => ai.validated = JNum(0)
        /\ (ai.value.t = "string" /\ Unreadable(ai.value.s))
              => ai.validated = JNum(0)

\* a score above 1 has become 1
C18_Witness ==
    /\ ai.phase = "confidence"
    /\ ai.value = JNum(One + 5)
    /\ ai.validated = JNum(One)

\* str is word, whatever the case of its letters
SameWord(str, word) ==
    /\ Len(str) = Len(word)
    /\ \A i \in DOMAIN str :
          \/ str[i] = word[i]
          \/ \E c \in DOMAIN LowerCase : LowerCase[c] = word[i] /\ UpperCase[c] = str[i]

\* C19: the validated pricing assessment is the input in lower case when the
\* input is underpriced, overpriced or fair in any mix of cases, and "fair" for
\* every other input (another word, a number, null, a missing field)
C19_AssessmentNormalised ==
    ai.phase = "assessment" =>
        /\ \A word \in {Underpriced, Overpriced, Fair} :
              (ai.value.t = "string" /\ SameWord(ai.value.s, word))
                  => ai.validated = JStr(word)
        /\ (ai.value.t # "string"
              \/ \A word \in {Underpriced, Overpriced, Fair} :
                    ~SameWord(ai.value.s, word))
                  => ai.validated = JStr(Fair)

\* "Overpriced" has become "overpriced"
C19_Witness ==
    /\ ai.phase = "assessment"
    /\ ai.value = JStr(<<"O", "v", "e", "r", "p", "r", "i", "c", "e", "d">>)
    /\ ai.validated = JStr(Overpriced)

\* C20: the market value parseResponse gives is always a number and never NaN;
\* a string with a currency symbol or a thousands separator, like any input the
\* conversion to a number rejects, gives the default 0, and a plain number is
\* kept
C20_MarketValueIsNumber ==
    ai.phase = "marketValue" =>
        /\ ai.validated.t \in {"number", "infinity"}
        /\ (ai.value.t = "string" /\ Unreadable(ai.value.s))
              => ai.validated = JNum(0)
        /\ ai.value.t \in {"undefined", "nan", "object"} => ai.validated = JNum(0)
        /\ ai.value.t = "number" => ai.validated = ai.value

\* "$1,250" has become 0
C20_Witness ==
    /\ ai.phase = "marketValue"
    /\ ai.value = JStr(<<"$", "1", ",", "2", "5", "0">>)
    /\ ai.validated = JNum(0)

-----------------------------------------------------------------------------
(* Claims about a detail fetch *)

\* C22: a detail page whose posted-date text is present but not a date still
\* yields a record: the fetch is fulfilled with a record whose posting time is
\* the time of the fetch
C22_UnparseableDateYieldsRecord ==
    \A t \in DOMAIN settled :
        settled[t].cause = "okBadDate" =>
            /\ settled[t].status = "fulfilled"
            /\ ~settled[t].value.null
            /\ settled[t].value.postedDate = "fetchTime"

\* C23: when browser.newPage() fails during collectListings, for a result page
\* or for a detail page, run() is rejected with that failure instead of going
\* on with the records that were fetched
C23_SessionLossAbortsRun ==
    (col.lost /\ run.phase # "collecting") =>
        /\ run.phase = "rejected"
        /\ run.error = "collectListings"

\* C30: once a result page has shown the no-results marker the page loop is
\* over without an error: no URL of that page is taken, no further result page
\* is navigated, no page handle is left open, and the URLs gathered before are
\* the ones submitted for a detail fetch, each of which is fetched
C30_NoResultsEndsPaging ==
    col.marker.page # 0 =>
        /\ col.phase \in {"collected", "detail", "returned"}
        /\ col.listingUrls = col.marker.before
        /\ col.navigated = col.marker.page
        /\ col.phase = "collected" => col.open = 0
        /\ col.phase \in {"detail", "returned"} =>
              /\ jobs = col.marker.before
              /\ submitLog = [k \in 1..Len(col.marker.before) |-> k]
        /\ col.phase = "returned" =>
              /\ \A t \in DOMAIN settled : settled[t].status # "none"
              /\ Len(queue.startLog) = Len(col.marker.before)

\* the marker on the second result page, after a full first page whose URL
\* was then fetched
C30_Witness ==
    /\ col.marker.page = 2
    /\ col.marker.before # <<>>
    /\ col.phase = "returned"
    /\ col.allListings # <<>>

\* C24: the size of every image downloadImage returns is the size of the
\* file at its local path, whatever the content-length header said, an empty
\* file included
C24_SizeIsFileSize ==
    \A t \in DOMAIN settled :
        (settled[t].status = "fulfilled" /\ ~settled[t].value.null) =>
            \A f \in FileAt(dl.files, settled[t].value.localPath) :
                settled[t].value.size = f.size

-----------------------------------------------------------------------------
(* Claims about the database *)

\* the analysis rows of a listing
AnalysesOf(id) == {r \in run.db.analyses : r.listingId = id}

\* C25: after any sequence of saveAnalysis calls the table holds at most one
\* analysis per listing identifier, the one saved last for it, and a save for
\* one listing leaves the rows of the others as they were
C25_OneAnalysisPerListing ==
    /\ [](\A id \in Urls :
            /\ Cardinality(AnalysesOf(id)) <= 1
            /\ \A r \in AnalysesOf(id) :
                  id \in DOMAIN run.lastSaved /\ r.analysis = run.lastSaved[id]
            /\ (run.phase = "saved" /\ run.listingId = id) =>
                  AnalysesOf(id) = {[listingId |-> id, analysis |-> run.analysis]})
    /\ [][\A id \in Urls :
            (run'.listingId # 0 /\ run'.listingId # id) =>
                {r \in run'.db.analyses : r.listingId = id} = AnalysesOf(id)]_vars

\* a second analysis saved for a listing, another listing's row beside it
C25_Witness ==
    /\ run.phase = "saved"
    /\ run.listingId = 1
    /\ run.analysis = GetDefaultAnalysis
    /\ \E r \in AnalysesOf(2) : r.analysis # GetDefaultAnalysis
    /\ \E r \in run.db.analyses : r.listingId = 1

\* C31: a detail page with the removed or expired marker gives no record and
\* no error: its task is fulfilled with null, nothing of the page is in the
\* result of collectListings, and every URL that was fetched well has its record there
C31_RemovedListingExcluded ==
    /\ col.removed # {} => col.phase \in {"detail", "returned"}
    /\ \A t \in col.removed :
          /\ settled[t].status = "fulfilled"
          /\ settled[t].value = NullRecord
          /\ col.phase = "returned" =>
                \A k \in 1..Len(col.allListings) :
                    col.allListings[k].url # jobs[t]
    /\ col.phase = "returned" =>
          \A t \in DOMAIN settled \ col.removed :
              settled[t].cause = "ok" =>
                  \E k \in 1..Len(col.allListings) :
                      col.allListings[k] = settled[t].value

\* two URLs, one of them removed, the other fetched and returned
C31_Witness ==
    /\ col.phase = "returned"
    /\ col.removed # {}
    /\ Len(col.allListings) = 1
    /\ Len(jobs) = 2

C34_NoHandleLeftOpen ==
    col.phase \in {"returned", "thrown"} => col.open = 0

-----------------------------------------------------------------------------
(* Claims about the files of the downloads *)

\* the downloads that have a file name
Named == {t \in DOMAIN dl.task : dl.task[t].filename # NoPath}

\* C32: no two downloads write to the same local path: each has an image
\* identifier of its own and so a file name of its own, two downloads of the
\* same URL for the same listing and downloads in flight together included,
\* and every file of the directory is the file of one download
C32_OwnFilePerDownload ==
    /\ \A t, u \in Named :
          t # u =>
              /\ dl.task[t].imageId # dl.task[u].imageId
              /\ LocalPath(dl.task[t].filename) # LocalPath(dl.task[u].filename)
    /\ \A f \in dl.files :
          Cardinality({t \in Named : LocalPath(dl.task[t].filename) = f.path}) = 1

\* two downloads of one URL, both with their file written
C32_Witness ==
    \E t, u \in Named :
        /\ t # u
        /\ dl.urls[t] = dl.urls[u]
        /\ dl.task[t].step = "written"
        /\ dl.task[u].step = "written"
        /\ Cardinality(dl.files) = 2

-----------------------------------------------------------------------------
(* Claims about a whole run *)

\* C36: after a run that completes without error every record
\* collectListings returned has its listing row and exactly one analysis row,
\* and saveAnalysis was called once per record, whether the record's downloads
\* all failed or its analysis is the fallback
C36_EveryRecordAnalysed ==
    run.phase = "done" =>
        /\ run.db.listings =
              {col.allListings[k].id : k \in 1..Len(col.allListings)}
        /\ \A id \in run.db.listings : Cardinality(AnalysesOf(id)) = 1
        /\ Cardinality({k \in Calls : run.log[k].op = "saveAnalysis"})
              = Len(col.allListings)
        /\ \A k \in Calls : run.log[k].ok

\* a finished run of two records: the downloads of one all failed, and an
\* analysis that was saved is the fallback
C36_Witness ==
    /\ run.phase = "done"
    /\ Len(col.allListings) = 2
    /\ \E k \in Calls :
          /\ run.log[k].op = "downloaded"
          /\ run.log[k].n = 0
          /\ run.log[k].failed > 0
    /\ \E r \in run.db.analyses : r.analysis = GetDefaultAnalysis
    /\ \E r \in run.db.analyses : r.analysis # GetDefaultAnalysis

-----------------------------------------------------------------------------
(* Claims about the image directory and the image rows *)

\* run() has resolved or rejected
RunEnded == run.phase \in {"done", "rejected"}

\* the image rows whose local_path is the path of file f
RowsOf(f) == {r \in run.db.images : r.localPath = f.path}

\* C38: at the end of a run, completed or aborted by a fatal error, every
\* file written into the image directory has exactly one image row whose
\* local path is that file, and every image row points to a file that exists
C38_FilesMatchRows ==
    RunEnded =>
        /\ \A f \in dl.files : Cardinality(RowsOf(f)) = 1
        /\ \A r \in run.db.images : FileAt(dl.files, r.localPath) # {}

\* the same for the runs that complete (it holds in SpecRun, where every
\* unlink of a partial file succeeds)
FilesMatchRowsWhenDone ==
    run.phase = "done" =>
        /\ \A f \in dl.files : Cardinality(RowsOf(f)) = 1
        /\ \A r \in run.db.images : FileAt(dl.files, r.localPath) # {}

-----------------------------------------------------------------------------
(* Claims about the entry point *)

\* cleanup() has been entered: its first await, scraper.close(), was called
CleanupExecuted(m) == m.cleanup # <<>> /\ m.cleanup[1] = "scraper.close"

\* C37: on every path of main, with initialize() and run() succeeding or one
\* of them failing, cleanup() has been executed when the process ends
C37_CleanupBeforeProcessEnds ==
    run.main.pc = "ended" => CleanupExecuted(run.main)

-----------------------------------------------------------------------------
(* Claims about the retry loop *)

\* C21: a response that is present but empty or malformed (a text JSON.parse
\* rejects, a payload that is not an object, fields missing or out of domain)
\* never makes analyzeAntique fail and never costs a further attempt: the first
\* pass that receives a response ends the loop, the queue task is fulfilled,
\* and the Enrichment is well formed (the fallback when nothing was parsed)
C21_ResponseEndsLoop ==
    /\ ai.phase \in {"queued", "attempting", "backoff"} => ai.got = 0
    /\ ai.got > 0 =>
          /\ ai.got = 1
          /\ ai.phase = "returned"
          /\ ai.last = "response"
          /\ ai.requests = ai.attempt + 1
          /\ settled[ai.call].status = "fulfilled"
          /\ ai.thrown = "none"
          /\ WellFormed(ai.result)
          /\ ai.how \in {"empty", "malformed"} => IsFallback(ai.result)

\* a text that does not parse, received at the second attempt
C21_Witness ==
    /\ ai.phase = "returned"
    /\ ai.raw = GarbageContent
    /\ ai.attempt = 1
    /\ ai.requests = 2
    /\ IsFallback(ai.result)

\* C27: a rate-limit signal at attempt k (k = 0, 1, 2) is followed by a wait
\* of 1000 * 2^k ms; it never ends the loop with a failure while attempts
\* remain, and the loop fails only when all three attempts are used
C27_RateLimitBackoff ==
    /\ \A k \in 0..2 :
          (ai.phase = "backoff" /\ ai.last = "rateLimited" /\ ai.attempt = k)
              => ai.wait = 1000 * (2 ^ k)
    /\ ai.last = "rateLimited" =>
          \/ ai.phase = "backoff" /\ ai.attempt \in 0..2
          \/ /\ ai.phase = "returned"
             /\ ai.requests = 3
             /\ ai.waited = 3
             /\ ai.thrown = "failedAfterAttempts"
             /\ settled[ai.call].status = "rejected"
    /\ (ai.phase = "returned" /\ ai.how = "exhausted") => ai.requests = 3

\* the third attempt is rate limited: the loop waits 4000 ms
C27_Witness ==
    /\ ai.phase = "backoff"
    /\ ai.last = "rateLimited"
    /\ ai.attempt = 2
    /\ ai.wait = 4000
    /\ ai.limited = 2

\* C28: an error other than a rate-limit signal at attempt k with attempts
\* remaining is followed by a wait of 1000 * 2^k ms and a retry with the same
\* request; at the final attempt that same error is thrown out of the loop
C28_OtherErrorRetriesThenPropagates ==
    /\ \A k \in 0..1 :
          (ai.phase = "backoff" /\ ai.last \in {"error", "timeout"} /\ ai.attempt = k)
              => ai.wait = 1000 * (2 ^ k)
    /\ ai.last \in {"error", "timeout"} =>
          \/ ai.phase = "backoff" /\ ai.attempt < 2
          \/ /\ ai.phase = "returned"
             /\ ai.attempt = 2
             /\ ai.thrown = ai.last
             /\ ai.how = "exhausted"
             /\ settled[ai.call].status = "rejected"
    /\ \A i \in DOMAIN ai.sent : ai.sent[i] = ai.sent[1]
    /\ Len(ai.sent) = ai.requests

\* a rate limit, an error, then a timeout at the final attempt
C28_Witness ==
    /\ ai.phase = "returned"
    /\ ai.thrown = "timeout"
    /\ ai.limited = 1
    /\ Len(ai.sent) = 3
    /\ ai.waited = 2

\* C29: every backoff wait is followed by another request: the loop is never
\* waiting after its final attempt
C29_NoWaitAfterFinalAttempt ==
    ai.phase = "backoff" => ai.attempt < MaxRetries - 1

\* C26: in every window of the inference queue the requests sent to the API,
\* retries included, are at most requestsPerMinute, and at most
\* concurrentRequests calls are in flight
C26_RequestsWithinRateLimit ==
    /\ ai.inWindow <= cfg.requestsPerMinute
    /\ queue.pending <= cfg.concurrentRequests

====
